---- MODULE Spec2Model ----
(***************************************************************************)
(* A model of the javalette compiler core: operator selection              *)
(* (ir_translator/typeck.rs), the lexer (lexer/mod.rs) and the backend     *)
(* emitter (backend/mod.rs).                                               *)
(***************************************************************************)
EXTENDS Integers, Sequences, FiniteSets, TLC

VARIABLES
    tc,         \* typeck: the last call of binop_typeck / unop_typeck and its result
    input,      \* lexer: Lexer.input, a sequence of characters
    pos,        \* lexer: Lexer.pos
    buffer,     \* lexer: Lexer.buffer, <<>> (None) or <<result>> (Some)
    last,       \* lexer: the last call made on the lexer and what it returned
    delivered,  \* lexer: the Ok tokens next_token has returned to its callers, in order
    prog,       \* backend: the ir::Program handed to llvm_codegen_program
    be,         \* backend: the Backend (module, builder position, current_break, ...)
    phase,      \* backend: where llvm_codegen_program stands (which loop, which declaration)
    run         \* backend: an execution of the emitted code of the first function

vars == <<tc, input, pos, buffer, last, delivered, prog, be, phase, run>>
tcVars == <<tc>>
lexVars == <<input, pos, buffer, last, delivered>>
beVars == <<prog, be, phase, run>>

(***************************************************************************)
(* Bounds of the model.                                                    *)
(***************************************************************************)
MaxTyDepth == 1      \* nesting of LValue / Pointer / Array in the operand types
MaxArrayLen == 1     \* largest array length in the operand types
MaxInputLen == 4     \* longest lexer input
MaxTokens == 4       \* most tokens next_token delivers in one run
MaxOperatorsLen == 3 \* longest lexer input made of operator characters
MaxLiteralsLen == 4  \* longest lexer input made of the characters of literals
MaxNumbersLen == 5   \* longest lexer input made of the characters of numbers
MaxCommentsLen == 5  \* longest lexer input made of white space and comments
MaxStmts == 3        \* most statements in a function body
MaxTernaries == 2    \* most Ternary nodes in an expression
MaxInt == 2          \* largest magnitude of an Int argument or literal
MaxSteps == 12       \* most instructions one execution runs
MaxTypeCalls == 3    \* most calls of codegen_type on one Backend
MaxCallDepth == 6    \* deepest nesting of calls of codegen_type that is followed

(***************************************************************************)
(* Machine integers.  An integer of n bytes is the sequence of its bytes,  *)
(* least significant first, in two's complement; the integers of at most   *)
(* 4 bytes are also kept as signed numbers.                                *)
(***************************************************************************)
MaxI32 == 2147483647
MinI32 == (0 - MaxI32) - 1

Pow256(i) == CASE i = 0 -> 1 [] i = 1 -> 256 [] i = 2 -> 65536 [] i = 3 -> 16777216

\* The n bytes of the signed number v (sign-extended beyond the 4th byte).
Bytes(v, n) ==
    [i \in 1..n |-> IF i <= 4 THEN (v \div Pow256(i - 1)) % 256
                    ELSE IF v < 0 THEN 255 ELSE 0]

\* A 64-bit integer: of a signed number, and of its two 32-bit words.
I64(v) == Bytes(v, 8)
Wide(hi, lo) == Bytes(lo, 4) \o Bytes(hi, 4)

\* The number that the first n of these bytes are, unsigned.
RECURSIVE Unsigned(_, _)
Unsigned(b, n) == IF n = 0 THEN 0 ELSE b[1] + 256 * Unsigned(Tail(b), n - 1)

\* The signed number of at most 4 bytes.
Signed(b) ==
    Unsigned(b, Len(b) - 1)
        + Pow256(Len(b) - 1) * (IF b[Len(b)] >= 128 THEN b[Len(b)] - 256 ELSE b[Len(b)])

\* a + b + carry in the width of a, from byte i on.
RECURSIVE AddFrom(_, _, _, _)
AddFrom(a, b, i, carry) ==
    IF i > Len(a) THEN <<>>
    ELSE <<(a[i] + b[i] + carry) % 256>>
            \o AddFrom(a, b, i + 1, (a[i] + b[i] + carry) \div 256)

AddBytes(a, b) == AddFrom(a, b, 1, 0)
NegBytes(a) == AddFrom([i \in 1..Len(a) |-> 255 - a[i]], [i \in 1..Len(a) |-> 0], 1, 1)
SubBytes(a, b) == AddBytes(a, NegBytes(b))

\* a * k for one byte k, in the width of a, from byte i on.
RECURSIVE ScaleFrom(_, _, _, _)
ScaleFrom(a, k, i, carry) ==
    IF i > Len(a) THEN <<>>
    ELSE <<(a[i] * k + carry) % 256>> \o ScaleFrom(a, k, i + 1, (a[i] * k + carry) \div 256)

\* a * 256^s in the width of a.
ShiftBytes(a, s) == [i \in 1..Len(a) |-> IF i <= s THEN 0 ELSE a[i - s]]

\* a * b in the width of a: the sum of a * b[i] * 256^(i-1), from byte i on.
RECURSIVE MulFrom(_, _, _)
MulFrom(a, b, i) ==
    IF i > Len(b) THEN [j \in 1..Len(a) |-> 0]
    ELSE AddBytes(ShiftBytes(ScaleFrom(a, b[i], 1, 0), i - 1), MulFrom(a, b, i + 1))

MulBytes(a, b) == MulFrom(a, b, 1)

(***************************************************************************)
(* ty::Type.  A type is a non-empty sequence of constructors, outermost    *)
(* first, ending in a primitive: Pointer(Int) is <<Pointer, Int>>.         *)
(***************************************************************************)
Ctor(c, n) == [c |-> c, n |-> n]

TInt == <<Ctor("Int", 0)>>
TDouble == <<Ctor("Double", 0)>>
TBoolean == <<Ctor("Boolean", 0)>>
TString == <<Ctor("String", 0)>>
TVoid == <<Ctor("Void", 0)>>
TLValue(t) == <<Ctor("LValue", 0)>> \o t
TPointer(t) == <<Ctor("Pointer", 0)>> \o t
TArray(t, n) == <<Ctor("Array", n)>> \o t

PrimTypes == {TInt, TDouble, TBoolean, TString, TVoid}

RECURSIVE TypesUpTo(_)
TypesUpTo(d) ==
    IF d = 0 THEN PrimTypes
    ELSE LET S == TypesUpTo(d - 1)
         IN  S \cup {TLValue(t) : t \in S} \cup {TPointer(t) : t \in S}
               \cup {TArray(t, n) : t \in S, n \in 1..MaxArrayLen}

Types == TypesUpTo(MaxTyDepth)

\* Type::has_default_value
has_default_value(ty) == ty \in {TInt, TDouble, TBoolean}

IsPointer(t) == t[1].c = "Pointer"
Pointee(t) == Tail(t)

(***************************************************************************)
(* ast::BinaryOperatorKind, ast::UnaryOperatorKind, ir::BinaryOperatorKind *)
(***************************************************************************)
AstBinops == {"Plus", "Minus", "Multiply", "Divide", "Modulo", "Equal", "NotEqual",
              "Less", "LessEqual", "Greater", "GreaterEqual"}
AstUnops == {"Minus", "LogicalNot", "PtrDeref"}

IrBinops == {"IntPlus", "DoublePlus", "IntMinus", "DoubleMinus", "IntMultiply",
             "DoubleMultiply", "IntDivide", "DoubleDivide", "IntModulo", "IntEqual",
             "DoubleEqual", "BooleanEqual", "IntNotEqual", "DoubleNotEqual",
             "BooleanNotEqual", "IntLess", "DoubleLess", "IntLessEqual",
             "DoubleLessEqual", "IntGreater", "DoubleGreater", "IntGreaterEqual",
             "DoubleGreaterEqual"}

\* Option<(ty::Type, operator)>
None == [some |-> FALSE, ty |-> <<>>, op |-> "None"]
Some(t, o) == [some |-> TRUE, ty |-> t, op |-> o]

(***************************************************************************)
(* binop_typeck: the match of typeck.rs, arm by arm, in three groups.  No  *)
(* two arms overlap, so the order of the groups does not matter.           *)
(***************************************************************************)
ArithArms(binop, lhs, rhs) ==
    CASE binop = "Plus" /\ lhs = TInt /\ rhs = TInt -> Some(TInt, "IntPlus")
      [] binop = "Plus" /\ lhs = TDouble /\ rhs = TDouble -> Some(TDouble, "DoublePlus")
      [] binop = "Minus" /\ lhs = TInt /\ rhs = TInt -> Some(TInt, "IntMinus")
      [] binop = "Minus" /\ lhs = TDouble /\ rhs = TDouble -> Some(TDouble, "DoubleMinus")
      [] binop = "Multiply" /\ lhs = TInt /\ rhs = TInt -> Some(TInt, "IntMultiply")
      [] binop = "Multiply" /\ lhs = TDouble /\ rhs = TDouble
            -> Some(TDouble, "DoubleMultiply")
      [] binop = "Divide" /\ lhs = TInt /\ rhs = TInt -> Some(TInt, "IntDivide")
      [] binop = "Divide" /\ lhs = TDouble /\ rhs = TDouble -> Some(TDouble, "DoubleDivide")
      [] binop = "Modulo" /\ lhs = TInt /\ rhs = TInt -> Some(TInt, "IntModulo")
      [] OTHER -> None

EqualityArms(binop, lhs, rhs) ==
    CASE binop = "Equal" /\ lhs = TInt /\ rhs = TInt -> Some(TBoolean, "IntEqual")
      [] binop = "Equal" /\ lhs = TDouble /\ rhs = TDouble -> Some(TBoolean, "DoubleEqual")
      [] binop = "Equal" /\ lhs = TBoolean /\ rhs = TBoolean
            -> Some(TBoolean, "BooleanEqual")
      [] binop = "NotEqual" /\ lhs = TInt /\ rhs = TInt -> Some(TBoolean, "IntNotEqual")
      [] binop = "NotEqual" /\ lhs = TDouble /\ rhs = TDouble
            -> Some(TBoolean, "DoubleNotEqual")
      [] binop = "NotEqual" /\ lhs = TBoolean /\ rhs = TBoolean
            -> Some(TBoolean, "BooleanNotEqual")
      [] OTHER -> None

OrderingArms(binop, lhs, rhs) ==
    CASE binop = "Less" /\ lhs = TInt /\ rhs = TInt -> Some(TBoolean, "IntLess")
      [] binop = "Less" /\ lhs = TDouble /\ rhs = TDouble -> Some(TBoolean, "DoubleLess")
      [] binop = "LessEqual" /\ lhs = TInt /\ rhs = TInt -> Some(TBoolean, "IntLessEqual")
      [] binop = "LessEqual" /\ lhs = TDouble /\ rhs = TDouble
            -> Some(TBoolean, "DoubleLessEqual")
      [] binop = "Greater" /\ lhs = TInt /\ rhs = TInt -> Some(TBoolean, "IntGreater")
      [] binop = "Greater" /\ lhs = TDouble /\ rhs = TDouble
            -> Some(TBoolean, "DoubleGreater")
      [] binop = "GreaterEqual" /\ lhs = TInt /\ rhs = TInt
            -> Some(TBoolean, "IntGreaterEqual")
      [] binop = "GreaterEqual" /\ lhs = TDouble /\ rhs = TDouble
            -> Some(TBoolean, "DoubleGreaterEqual")
      [] OTHER -> None

FirstSome(a, b, c) == IF a.some THEN a ELSE IF b.some THEN b ELSE c

\* A slip in the table: the (Modulo, Int, Int) arm yields the operator of Divide.
binop_typeck_ModuloAsDivide(binop, lhs, rhs) ==
    FirstSome(IF binop = "Modulo" THEN ArithArms("Divide", lhs, rhs)
                                  ELSE ArithArms(binop, lhs, rhs),
              EqualityArms(binop, lhs, rhs), OrderingArms(binop, lhs, rhs))

\* A slip in the match: the arms look at the left operand only.
binop_typeck_LhsOnly(binop, lhs, rhs) ==
    FirstSome(ArithArms(binop, lhs, lhs), EqualityArms(binop, lhs, lhs),
              OrderingArms(binop, lhs, lhs))

binop_typeck(binop, lhs, rhs) ==
    FirstSome(ArithArms(binop, lhs, rhs), EqualityArms(binop, lhs, rhs),
              OrderingArms(binop, lhs, rhs))

(***************************************************************************)
(* unop_typeck                                                             *)
(***************************************************************************)
\* A slip in the match: `!` is accepted on Int as well.
unop_typeck_NotOnInt(unop, sub) ==
    CASE unop = "Minus" /\ sub = TInt -> Some(TInt, "IntMinus")
      [] unop = "Minus" /\ sub = TDouble -> Some(TDouble, "DoubleMinus")
      [] unop = "LogicalNot" /\ sub \in {TBoolean, TInt} -> Some(TBoolean, "BooleanNot")
      [] OTHER -> None

unop_typeck(unop, sub) ==
    CASE unop = "Minus" /\ sub = TInt -> Some(TInt, "IntMinus")
      [] unop = "Minus" /\ sub = TDouble -> Some(TDouble, "DoubleMinus")
      [] unop = "LogicalNot" /\ sub = TBoolean -> Some(TBoolean, "BooleanNot")
      [] OTHER -> None

(***************************************************************************)
(* The operator-selection calls.  tc holds the arguments of one call of    *)
(* binop_typeck or unop_typeck and, once it is done, what it returned.     *)
(***************************************************************************)
TcCall(fn, op, lhs, rhs) ==
    [fn |-> fn, op |-> op, lhs |-> lhs, rhs |-> rhs, done |-> FALSE, ret |-> None]

TcIdle == tc = TcCall("none", "none", <<>>, <<>>)

TcInit ==
    \/ \E binop \in AstBinops, lhs \in Types, rhs \in Types :
          tc = TcCall("binop_typeck", binop, lhs, rhs)
    \/ \E unop \in AstUnops, sub \in Types :
          tc = TcCall("unop_typeck", unop, sub, <<>>)
    \/ \E ty \in Types :
          tc = TcCall("has_default_value", "none", ty, <<>>)

BinopTypeck ==
    /\ tc.fn = "binop_typeck" /\ ~tc.done
    /\ tc' = [tc EXCEPT !.done = TRUE, !.ret = binop_typeck(tc.op, tc.lhs, tc.rhs)]
    /\ UNCHANGED <<lexVars, beVars>>

UnopTypeck ==
    /\ tc.fn = "unop_typeck" /\ ~tc.done
    /\ tc' = [tc EXCEPT !.done = TRUE, !.ret = unop_typeck(tc.op, tc.lhs)]
    /\ UNCHANGED <<lexVars, beVars>>

\* One call of Type::has_default_value.
HasDefaultValue ==
    /\ tc.fn = "has_default_value" /\ ~tc.done
    /\ tc' = [tc EXCEPT !.done = TRUE, !.ret = has_default_value(tc.lhs)]
    /\ UNCHANGED <<lexVars, beVars>>

(***************************************************************************)
(* The lexer (lexer/mod.rs).  The input is a sequence of one-character     *)
(* strings; pos is the 0-based offset of the next character, so the        *)
(* character at pos is inp[pos + 1].                                       *)
(***************************************************************************)
Digits == {"0", "1", "2", "3", "4", "5", "6", "7", "8", "9"}
Letters == {"a", "b", "c", "d", "e", "f", "g", "h", "i", "j", "k", "l", "m", "n", "o", "p", "q", "r", "s", "t", "u", "v", "w", "x", "y", "z",
            "A", "B", "C", "D", "E", "F", "G", "H", "I", "J", "K", "L", "M", "N", "O", "P", "Q", "R", "S", "T", "U", "V", "W", "X", "Y", "Z"}
Spaces == {" ", "\t", "\n", "\r", "\f"}
IdentStart == Letters \cup {"_"}
IdentChar == IdentStart \cup Digits

Slice(inp, from, to) == SubSeq(inp, from + 1, to)     \* &inp[from..to]
CharAt(inp, p) == inp[p + 1]
HasChar(inp, p) == p < Len(inp)

StartsWith(inp, p, lit) ==
    /\ p + Len(lit) <= Len(inp)
    /\ \A i \in 1..Len(lit) : inp[p + i] = lit[i]

\* The length of the longest run of characters of class C that starts at p.
RECURSIVE RunLen(_, _, _)
RunLen(inp, p, C) ==
    IF HasChar(inp, p) /\ CharAt(inp, p) \in C THEN 1 + RunLen(inp, p + 1, C) ELSE 0

\* The length of the longest run of characters other than a newline (`.*`).
RECURSIVE DotStarLen(_, _)
DotStarLen(inp, p) ==
    IF HasChar(inp, p) /\ CharAt(inp, p) # "\n" THEN 1 + DotStarLen(inp, p + 1) ELSE 0

NoMatch == -1

\* WHITESPACES ^\s+ : the length of the match at p, or NoMatch.
WhitespacesMatch(inp, p) ==
    LET n == RunLen(inp, p, Spaces) IN IF n > 0 THEN n ELSE NoMatch

\* A slip: `.` also matches the newline, the comment runs to the end of input.
LineCommentMatch_DotAll(inp, p) ==
    IF StartsWith(inp, p, <<"/", "/">>) THEN Len(inp) - p ELSE NoMatch

\* LINE_COMMENT ^//.*
LineCommentMatch(inp, p) ==
    IF StartsWith(inp, p, <<"/", "/">>) THEN 2 + DotStarLen(inp, p + 2) ELSE NoMatch

\* LINE_PP_COMMENT ^#.*
LinePPCommentMatch(inp, p) ==
    IF StartsWith(inp, p, <<"#">>) THEN 1 + DotStarLen(inp, p + 1) ELSE NoMatch

\* The offset just after the first "*/" at or after q, or NoMatch (the lazy `*?`).
RECURSIVE FirstCloser(_, _)
FirstCloser(inp, q) ==
    IF q + 2 > Len(inp) THEN NoMatch
    ELSE IF StartsWith(inp, q, <<"*", "/">>) THEN q + 2
    ELSE FirstCloser(inp, q + 1)

\* BLOCK_COMMENT ^/\*(.|[\r\n])*?\*/
BlockCommentMatch(inp, p) ==
    IF StartsWith(inp, p, <<"/", "*">>)
    THEN LET e == FirstCloser(inp, p + 2) IN IF e = NoMatch THEN NoMatch ELSE e - p
    ELSE NoMatch

\* SKIPABLE, in the order of the vector: the first regex that matches at p.
SkipableMatch(inp, p) ==
    IF WhitespacesMatch(inp, p) # NoMatch THEN WhitespacesMatch(inp, p)
    ELSE IF LineCommentMatch(inp, p) # NoMatch THEN LineCommentMatch(inp, p)
    ELSE IF LinePPCommentMatch(inp, p) # NoMatch THEN LinePPCommentMatch(inp, p)
    ELSE BlockCommentMatch(inp, p)

\* Lexer::skip_whitespaces: the position after the skipped text.
RECURSIVE skip_whitespaces(_, _)
skip_whitespaces(inp, p) ==
    LET m == SkipableMatch(inp, p)
    IN  IF m # NoMatch THEN skip_whitespaces(inp, p + m) ELSE p

\* IDENTIFIER_REGEX ^[a-zA-Z_][a-zA-Z0-9_]*
IdentifierMatch(inp, p) ==
    IF HasChar(inp, p) /\ CharAt(inp, p) \in IdentStart
    THEN 1 + RunLen(inp, p + 1, IdentChar)
    ELSE NoMatch

\* INTEGER_REGEX ^[0-9]+
IntegerMatch(inp, p) ==
    LET n == RunLen(inp, p, Digits) IN IF n > 0 THEN n ELSE NoMatch

\* The optional exponent ([eE][+-]?[0-9]+)? at q: its length, 0 when absent.
ExponentLen(inp, q) ==
    IF HasChar(inp, q) /\ CharAt(inp, q) \in {"e", "E"}
    THEN LET s == IF HasChar(inp, q + 1) /\ CharAt(inp, q + 1) \in {"+", "-"}
                  THEN 1 ELSE 0
             d == RunLen(inp, q + 1 + s, Digits)
         IN  IF d > 0 THEN 1 + s + d ELSE 0
    ELSE 0

\* DOUBLE_REGEX ^[0-9]*\.[0-9]+([eE][+-]?[0-9]+)?
DoubleMatch(inp, p) ==
    LET i == RunLen(inp, p, Digits)
        f == RunLen(inp, p + i + 1, Digits)
    IN  IF HasChar(inp, p + i) /\ CharAt(inp, p + i) = "." /\ f > 0
        THEN i + 1 + f + ExponentLen(inp, p + i + 1 + f)
        ELSE NoMatch

\* STRING_REGEX ^"(([^"]|\\")*[^\\])?" : the end offset of the body
\* ([^"]|\\")*[^\\] followed by the closing quote, tried as the regex engine
\* does: the first alternative first, one more repetition before none.
RECURSIVE StringBodyEnd(_, _)
StringBodyEnd(inp, q) ==
    LET a1 == IF HasChar(inp, q) /\ CharAt(inp, q) # "\""
              THEN StringBodyEnd(inp, q + 1) ELSE NoMatch
        a2 == IF StartsWith(inp, q, <<"\\", "\"">>)
              THEN StringBodyEnd(inp, q + 2) ELSE NoMatch
        a0 == IF /\ HasChar(inp, q) /\ CharAt(inp, q) # "\\"
                 /\ HasChar(inp, q + 1) /\ CharAt(inp, q + 1) = "\""
              THEN q + 2 ELSE NoMatch
    IN  IF a1 # NoMatch THEN a1 ELSE IF a2 # NoMatch THEN a2 ELSE a0

StringMatch(inp, p) ==
    IF HasChar(inp, p) /\ CharAt(inp, p) = "\""
    THEN LET e == StringBodyEnd(inp, p + 1)
         IN  IF e # NoMatch THEN e - p
             ELSE IF StartsWith(inp, p, <<"\"", "\"">>) THEN 2 ELSE NoMatch
    ELSE NoMatch

\* The match_literal! list of next_token, in order.
Literals ==
    << [lit |-> <<".", ".", ".">>, tok |-> "DotDotDot"],
       [lit |-> <<"(">>, tok |-> "LeftParenthesis"],
       [lit |-> <<")">>, tok |-> "RightParenthesis"],
       [lit |-> <<"{">>, tok |-> "LeftBracket"],
       [lit |-> <<"}">>, tok |-> "RightBracket"],
       [lit |-> <<"[">>, tok |-> "LeftSquare"],
       [lit |-> <<"]">>, tok |-> "RightSquare"],
       [lit |-> <<";">>, tok |-> "SemiColon"],
       [lit |-> <<":">>, tok |-> "Colon"],
       [lit |-> <<",">>, tok |-> "Comma"],
       [lit |-> <<".">>, tok |-> "Dot"],
       [lit |-> <<"-", ">">>, tok |-> "Arrow"],
       [lit |-> <<"=", "=">>, tok |-> "EqualEqual"],
       [lit |-> <<"!", "=">>, tok |-> "BangEqual"],
       [lit |-> <<"+", "+">>, tok |-> "PlusPlus"],
       [lit |-> <<"-", "-">>, tok |-> "MinusMinus"],
       [lit |-> <<"<", "=">>, tok |-> "LessEqual"],
       [lit |-> <<">", "=">>, tok |-> "GreaterEqual"],
       [lit |-> <<"|", "|">>, tok |-> "PipePipe"],
       [lit |-> <<"&", "&">>, tok |-> "AmpAmp"],
       [lit |-> <<"&">>, tok |-> "Amp"],
       [lit |-> <<"=">>, tok |-> "Equal"],
       [lit |-> <<"+">>, tok |-> "Plus"],
       [lit |-> <<"-">>, tok |-> "Minus"],
       [lit |-> <<"*">>, tok |-> "Star"],
       [lit |-> <<"/">>, tok |-> "Slash"],
       [lit |-> <<"%">>, tok |-> "Percent"],
       [lit |-> <<"<">>, tok |-> "Less"],
       [lit |-> <<">">>, tok |-> "Greater"],
       [lit |-> <<"!">>, tok |-> "Bang"] >>

\* The keyword arms of next_token.
Keywords ==
    { [word |-> <<"e", "x", "t", "e", "r", "n">>, tok |-> "ExternKeyword"],
       [word |-> <<"w", "h", "i", "l", "e">>, tok |-> "WhileKeyword"],
       [word |-> <<"f", "o", "r">>, tok |-> "ForKeyword"],
       [word |-> <<"i", "f">>, tok |-> "IfKeyword"],
       [word |-> <<"e", "l", "s", "e">>, tok |-> "ElseKeyword"],
       [word |-> <<"r", "e", "t", "u", "r", "n">>, tok |-> "ReturnKeyword"],
       [word |-> <<"t", "r", "u", "e">>, tok |-> "BooleanLiteral"],
       [word |-> <<"f", "a", "l", "s", "e">>, tok |-> "BooleanLiteral"],
       [word |-> <<"c", "o", "n", "t", "i", "n", "u", "e">>, tok |-> "ContinueKeyword"],
       [word |-> <<"b", "r", "e", "a", "k">>, tok |-> "BreakKeyword"],
       [word |-> <<"s", "t", "r", "u", "c", "t">>, tok |-> "StructKeyword"],
       [word |-> <<"a", "s">>, tok |-> "AsKeyword"],
       [word |-> <<"f", "n">>, tok |-> "FnKeyword"],
       [word |-> <<"l", "e", "t">>, tok |-> "LetKeyword"],
       [word |-> <<"n", "u", "l", "l", "p", "t", "r">>, tok |-> "NullptrKeyword"] }

\* A slip: the order of the list is not honoured, the last literal that matches
\* wins.
FirstLiteral_LastHit(inp, p) ==
    LET hits == {i \in 1..Len(Literals) : StartsWith(inp, p, Literals[i].lit)}
    IN  IF hits = {} THEN 0 ELSE CHOOSE i \in hits : \A j \in hits : i >= j

\* The index of the first literal that the text at p starts with, 0 if none.
FirstLiteral(inp, p) ==
    LET hits == {i \in 1..Len(Literals) : StartsWith(inp, p, Literals[i].lit)}
    IN  IF hits = {} THEN 0 ELSE CHOOSE i \in hits : \A j \in hits : i <= j

(***************************************************************************)
(* Results of the lexer: LexingResult<Spanned<Token>>.  ok tells Ok from   *)
(* Err; k is the token kind or the error kind; payload is the token's      *)
(* payload (or the error's) as a sequence of characters; exp is the        *)
(* decimal exponent of a DoubleLiteral; start and len are the span.        *)
(***************************************************************************)
Tok(k, payload, e, start, len) ==
    [ok |-> TRUE, k |-> k, payload |-> payload, exp |-> e, start |-> start, len |-> len]
LexErr(k, payload, start, len) ==
    [ok |-> FALSE, k |-> k, payload |-> payload, exp |-> 0, start |-> start, len |-> len]

DigitSeq == <<"0", "1", "2", "3", "4", "5", "6", "7", "8", "9">>
DigitVal(c) == (CHOOSE d \in 1..10 : DigitSeq[d] = c) - 1

RECURSIVE StripLeadingZeros(_)
StripLeadingZeros(ds) ==
    IF Len(ds) > 1 /\ ds[1] = "0" THEN StripLeadingZeros(Tail(ds)) ELSE ds

RECURSIVE TrailingZeros(_)
TrailingZeros(ds) ==
    IF Len(ds) > 1 /\ ds[Len(ds)] = "0"
    THEN 1 + TrailingZeros(SubSeq(ds, 1, Len(ds) - 1)) ELSE 0

\* The digits of i64::MAX.
I64MaxDigits ==
    <<"9", "2", "2", "3", "3", "7", "2", "0", "3", "6", "8", "5", "4", "7", "7", "5",
      "8", "0", "7">>

\* a <= b for two numerals of the same length.
RECURSIVE NumeralLeq(_, _)
NumeralLeq(a, b) ==
    IF a = <<>> THEN TRUE
    ELSE IF a[1] # b[1] THEN DigitVal(a[1]) < DigitVal(b[1])
    ELSE NumeralLeq(Tail(a), Tail(b))

\* s.parse() of a decimal numeral into a 64-bit integer: the canonical numeral,
\* or failure when the value exceeds i64::MAX.
ParseInteger(ds) ==
    LET c == StripLeadingZeros(ds)
    IN  [ok |-> \/ Len(c) < Len(I64MaxDigits)
                \/ Len(c) = Len(I64MaxDigits) /\ NumeralLeq(c, I64MaxDigits),
         digits |-> c]

RECURSIVE NumeralValue(_)
NumeralValue(ds) ==
    IF ds = <<>> THEN 0
    ELSE 10 * NumeralValue(SubSeq(ds, 1, Len(ds) - 1)) + DigitVal(ds[Len(ds)])

\* s.parse() of a lexeme of DOUBLE_REGEX: its value as a canonical decimal
\* mantissa (no leading or trailing zeros) and a decimal exponent.  Parsing such
\* a lexeme never fails.
ParseDouble(text) ==
    LET i == RunLen(text, 0, Digits)
        f == RunLen(text, i + 1, Digits)
        x == ExponentLen(text, i + 1 + f)
        neg == x > 0 /\ CharAt(text, i + 1 + f + 1) = "-"
        signed == x > 0 /\ CharAt(text, i + 1 + f + 1) \in {"+", "-"}
        eDigits == IF x = 0 THEN <<>>
                   ELSE Slice(text, i + 1 + f + 1 + (IF signed THEN 1 ELSE 0), Len(text))
        e == IF neg THEN 0 - NumeralValue(eDigits) ELSE NumeralValue(eDigits)
        m == StripLeadingZeros(Slice(text, 0, i) \o Slice(text, i + 1, i + 1 + f))
        t == TrailingZeros(m)
    IN  IF m = <<"0">> THEN [digits |-> m, exp |-> 0]
        ELSE [digits |-> SubSeq(m, 1, Len(m) - t), exp |-> e - f + t]

(***************************************************************************)
(* Lexer: the struct is [input, pos, buffer]; buffer is <<>> for None and  *)
(* <<token>> for Some(token).  Every method returns the lexer after the    *)
(* call and the result of the call.                                        *)
(***************************************************************************)
NewLexer(inp) == [input |-> inp, pos |-> 0, buffer |-> <<>>]
Ret(L, r) == [lexer |-> L, res |-> r]

\* The identifier arm of next_token: s is the lexeme matched at start.
IdentifierToken(s, start) ==
    LET kw == {w \in Keywords : w.word = s}
    IN  IF kw # {}
        THEN LET w == CHOOSE w \in kw : TRUE
             IN  Tok(w.tok, IF w.tok = "BooleanLiteral" THEN s ELSE <<>>, 0, start, Len(s))
        ELSE IF StartsWith(s, 0, <<"_", "_", "_">>)
             THEN LexErr("ReservedIdentifier", s, start, Len(s))
             ELSE Tok("Identifier", s, 0, start, Len(s))

\* The scan with the integer regex tried before the double regex.
Scan_IntegerFirst(L) ==
    LET inp == L.input
        p == skip_whitespaces(inp, L.pos)
        at(q) == [L EXCEPT !.pos = q]
        li == FirstLiteral(inp, p)
        idm == IdentifierMatch(inp, p)
        dm == DoubleMatch(inp, p)
        im == IntegerMatch(inp, p)
        sm == StringMatch(inp, p)
    IN  IF p >= Len(inp) THEN Ret(at(p), Tok("EOF", <<>>, 0, Len(inp), 1))
        ELSE IF li # 0
        THEN Ret(at(p + Len(Literals[li].lit)),
                 Tok(Literals[li].tok, <<>>, 0, p, Len(Literals[li].lit)))
        ELSE IF idm # NoMatch
        THEN Ret(at(p + idm), IdentifierToken(Slice(inp, p, p + idm), p))
        ELSE IF im # NoMatch
        THEN LET n == ParseInteger(Slice(inp, p, p + im))
             IN  Ret(at(p + im),
                     IF n.ok THEN Tok("IntegerLiteral", n.digits, 0, p, im)
                             ELSE LexErr("UnparsableNumber", <<>>, p, im))
        ELSE IF dm # NoMatch
        THEN LET d == ParseDouble(Slice(inp, p, p + dm))
             IN  Ret(at(p + dm), Tok("DoubleLiteral", d.digits, d.exp, p, dm))
        ELSE IF sm # NoMatch
        THEN Ret(at(p + sm), Tok("StringLiteral", Slice(inp, p, p + sm), 0, p, sm))
        ELSE Ret(at(p), LexErr("UnknownChar", <<CharAt(inp, p)>>, p, 1))

\* The scan of next_token once the buffer was found empty.
Scan(L) ==
    LET inp == L.input
        p == skip_whitespaces(inp, L.pos)
        at(q) == [L EXCEPT !.pos = q]
        li == FirstLiteral(inp, p)
        idm == IdentifierMatch(inp, p)
        dm == DoubleMatch(inp, p)
        im == IntegerMatch(inp, p)
        sm == StringMatch(inp, p)
    IN  IF p >= Len(inp) THEN Ret(at(p), Tok("EOF", <<>>, 0, Len(inp), 1))
        ELSE IF li # 0
        THEN Ret(at(p + Len(Literals[li].lit)),
                 Tok(Literals[li].tok, <<>>, 0, p, Len(Literals[li].lit)))
        ELSE IF idm # NoMatch
        THEN Ret(at(p + idm), IdentifierToken(Slice(inp, p, p + idm), p))
        ELSE IF dm # NoMatch
        THEN LET d == ParseDouble(Slice(inp, p, p + dm))
             IN  Ret(at(p + dm), Tok("DoubleLiteral", d.digits, d.exp, p, dm))
        ELSE IF im # NoMatch
        THEN LET n == ParseInteger(Slice(inp, p, p + im))
             IN  Ret(at(p + im),
                     IF n.ok THEN Tok("IntegerLiteral", n.digits, 0, p, im)
                             ELSE LexErr("UnparsableNumber", <<>>, p, im))
        ELSE IF sm # NoMatch
        THEN Ret(at(p + sm), Tok("StringLiteral", Slice(inp, p, p + sm), 0, p, sm))
        ELSE Ret(at(p), LexErr("UnknownChar", <<CharAt(inp, p)>>, p, 1))

\* A slip: the buffered token is returned but left in the buffer.
next_token_NoTake(L) ==
    IF L.buffer # <<>> THEN Ret(L, L.buffer[1]) ELSE Scan(L)

\* A slip: an identifier is reserved only when it is exactly `___`.
next_token_ReservedExact(L) ==
    LET r == IF L.buffer # <<>> THEN Ret([L EXCEPT !.buffer = <<>>], L.buffer[1])
             ELSE Scan(L)
    IN  IF r.res.k = "ReservedIdentifier" /\ r.res.payload # <<"_", "_", "_">>
        THEN Ret(r.lexer, Tok("Identifier", r.res.payload, 0, r.res.start, r.res.len))
        ELSE r

\* A slip: the StringLiteral carries the text between the quotes.
next_token_Unquoted(L) ==
    LET r == IF L.buffer # <<>> THEN Ret([L EXCEPT !.buffer = <<>>], L.buffer[1])
             ELSE Scan(L)
    IN  IF r.res.k = "StringLiteral"
        THEN Ret(r.lexer, [r.res EXCEPT !.payload = SubSeq(@, 2, Len(@) - 1)])
        ELSE r

\* Lexer::next_token
\* next_token stepping over the character it reports as unknown.
next_token_SkipUnknown(L) ==
    IF L.buffer # <<>> THEN Ret([L EXCEPT !.buffer = <<>>], L.buffer[1])
    ELSE IF ~Scan(L).res.ok /\ Scan(L).res.k = "UnknownChar"
         THEN Ret([Scan(L).lexer EXCEPT !.pos = @ + 1], Scan(L).res)
         ELSE Scan(L)

\* next_token with matches that do not advance the position.
next_token_NoAdvance(L) ==
    IF L.buffer # <<>> THEN Ret([L EXCEPT !.buffer = <<>>], L.buffer[1])
    ELSE Ret([Scan(L).lexer EXCEPT !.pos = L.pos], Scan(L).res)

next_token(L) ==
    IF L.buffer # <<>> THEN Ret([L EXCEPT !.buffer = <<>>], L.buffer[1]) ELSE Scan(L)

\* Lexer::peek_token
peek_token(L) ==
    IF L.buffer = <<>>
    THEN LET r == next_token(L)
         IN  IF r.res.ok THEN Ret([r.lexer EXCEPT !.buffer = <<r.res>>], r.res)
             ELSE r
    ELSE Ret(L, L.buffer[1])

(***************************************************************************)
(* The lexer's calls.  The callers (the parser) call next_token and        *)
(* peek_token in any order.  last records the call and what it returned.   *)
(***************************************************************************)
TheLexer == [input |-> input, pos |-> pos, buffer |-> buffer]
NoCall == [fn |-> "none", res |-> Tok("none", <<>>, 0, 0, 0)]

RECURSIVE SeqsUpTo(_, _)
SeqsUpTo(S, n) ==
    IF n = 0 THEN {<<>>}
    ELSE LET R == SeqsUpTo(S, n - 1)
         IN  R \cup {Append(r, c) : r \in {q \in R : Len(q) = n - 1}, c \in S}

\* Lexer::new on some input of at most n characters of A.
LexInitUpTo(A, n) ==
    /\ input \in SeqsUpTo(A, n)
    /\ pos = 0
    /\ buffer = <<>>
    /\ last = NoCall
    /\ delivered = <<>>

LexInit(A) == LexInitUpTo(A, MaxInputLen)

LexIdle == LexInit({})

NextToken ==
    /\ Len(delivered) < MaxTokens
    /\ LET r == next_token(TheLexer)
       IN  /\ pos' = r.lexer.pos
           /\ buffer' = r.lexer.buffer
           /\ last' = [fn |-> "next_token", res |-> r.res]
           /\ delivered' = IF r.res.ok THEN Append(delivered, r.res) ELSE delivered
    /\ UNCHANGED <<input, tcVars, beVars>>

PeekToken ==
    /\ Len(delivered) < MaxTokens
    /\ LET r == peek_token(TheLexer)
       IN  /\ pos' = r.lexer.pos
           /\ buffer' = r.lexer.buffer
           /\ last' = [fn |-> "peek_token", res |-> r.res]
    /\ UNCHANGED <<input, delivered, tcVars, beVars>>

(***************************************************************************)
(* The IR (ir::Statement, ir::Expression) as the backend consumes it.      *)
(* An expression is [k, n, s, sub]: its variant, an integer (a literal's   *)
(* value or a local's id), a name (the operator or cast kind) and its      *)
(* sub-expressions.  A statement is [k, e, a, b, s]: its variant, its      *)
(* expression if any (condition, returned value), two statement lists      *)
(* (body / then, and init / else) and the optional step of a For.          *)
(***************************************************************************)
Expr(k, n, s, sub) == [k |-> k, n |-> n, s |-> s, sub |-> sub, i64 |-> <<>>]
\* Literal::IntLiteral(i64): the literal is kept as the 8 bytes of the i64.
IntLiteral64(bytes) == [Expr("IntLiteral", 0, "", <<>>) EXCEPT !.i64 = bytes]
IntLiteral(v) == IntLiteral64(I64(v))
BooleanLiteral(b) == Expr("BooleanLiteral", IF b THEN 1 ELSE 0, "", <<>>)
Local(id) == Expr("Local", id, "", <<>>)
LValueToRValue(e) == Expr("LValueToRValue", 0, "", <<e>>)
Assign(lhs, rhs) == Expr("Assign", 0, "", <<lhs, rhs>>)
BinaryOperator(binop, lhs, rhs) == Expr("BinaryOperator", 0, binop, <<lhs, rhs>>)
UnaryOperator(unop, e) == Expr("UnaryOperator", 0, unop, <<e>>)
LValueUnaryOperator(op, e) == Expr("LValueUnaryOperator", 0, op, <<e>>)
Cast(kind, e) == Expr("Cast", 0, kind, <<e>>)
Ternary(c, t, f) == Expr("Ternary", 0, "", <<c, t, f>>)
Global(name) == Expr("Global", 0, name, <<>>)
FunctionCall(func, args) == Expr("FunctionCall", 0, "", <<func>> \o args)

Stmt(k, e, a, b, st) == [k |-> k, e |-> e, a |-> a, b |-> b, s |-> st]
SBlock(list) == Stmt("Block", <<>>, list, <<>>, <<>>)
SIf(c, body, els) == Stmt("If", <<c>>, body, els, <<>>)
SFor(init, c, step, body) == Stmt("For", <<c>>, body, <<init>>, step)
SReturn(opt) == Stmt("Return", opt, <<>>, <<>>, <<>>)
SExpression(e) == Stmt("Expression", <<e>>, <<>>, <<>>, <<>>)
SBreak == Stmt("Break", <<>>, <<>>, <<>>, <<>>)
SContinue == Stmt("Continue", <<>>, <<>>, <<>>, <<>>)

\* ir::Function
Function(name, ret, params, vardecls, body) ==
    [name |-> name, return_ty |-> ret, parameters |-> params,
     var_declarations |-> vardecls, body |-> body]

\* ir::ExternFunction
ExternFunction(name, ty) == [name |-> name, ty |-> ty]

\* ir::Declaration::Function(_), as opposed to ir::Declaration::ExternFunction(_)
IsFunction(decl) == "body" \in DOMAIN decl

\* A position in a function's body: the statement list in slot sl of the node at
\* p is at p \o <<sl>>, its i-th statement at p \o <<sl, i>>; the expression of a
\* statement at p is at p \o <<SlotExpr, 1>>; the i-th operand of an expression at
\* q is at q \o <<i>>.
SlotBody == 1
SlotElse == 2
SlotInit == 3
SlotExpr == 4
SlotStep == 5

(***************************************************************************)
(* The backend module under construction: LLVM values, instructions and    *)
(* basic blocks as the IRBuilder leaves them.                              *)
(***************************************************************************)
\* LLVMValueRef: a constant of an LLVM type, the result of an instruction, a
\* function parameter.
VConst(n, ty) == [k |-> "const", n |-> n, ty |-> ty]
VInst(id) == [k |-> "inst", n |-> id, ty |-> ""]
VParam(index) == [k |-> "param", n |-> index, ty |-> ""]
\* the function a Module::get_named_function returned (0: the null pointer)
VFunc(func_ref) == [k |-> "func", n |-> func_ref, ty |-> ""]

NullBB == 0     \* ptr::null_mut()

\* The bytes of an LLVM integer type.
TypeBytes(ty) ==
    CASE ty = "i8" -> 1 [] ty = "i16" -> 2 [] ty = "i32" -> 4 [] ty = "i64" -> 8

\* utils::const_int(ty, v, sign_extend): the 64-bit v is cut to the width of
\* ty.  The value is kept as a signed number.
ConstInt(ty, v) ==
    VConst(IF ty = "i1" THEN v[1] % 2 ELSE Signed(SubSeq(v, 1, TypeBytes(ty))), ty)

\* An instruction: its opcode, the value it defines (numbered when built), its
\* value operands, its block operands, a predicate or destination type, and the
\* IR node (why, tag) whose lowering built it.
Ins(op, vals, bbs, aux, why, tag) ==
    [op |-> op, res |-> 0, vals |-> vals, bbs |-> bbs, aux |-> aux,
     why |-> why, tag |-> tag]

Terminators == {"br", "cond_br", "ret", "ret_void", "unreachable"}

\* Context::append_bb_to_func: the block is added at the end of the function.
AppendBB(B, fn, name, tag) ==
    IF B.panicked THEN B
    ELSE [B EXCEPT !.blocks = Append(@, [fn |-> fn, name |-> name, tag |-> tag,
                                         instrs |-> <<>>])]
\* The handle of the k-th block appended to B from here on.
NewBB(B, k) == Len(B.blocks) + k

\* IRBuilder::position_at_end
PositionAtEnd(B, bb) == IF B.panicked THEN B ELSE [B EXCEPT !.cur = bb]

\* IRBuilder::get_insert_block
GetInsertBlock(B) == B.cur

\* IRBuilder::build_*: the instruction is inserted at the builder's position.
Build(B, ins) ==
    IF B.panicked THEN B
    ELSE [B EXCEPT !.nval = @ + 1,
                   !.blocks[B.cur].instrs = Append(@, [ins EXCEPT !.res = B.nval + 1])]
Built(B) == VInst(B.nval)

\* panic!() / unimplemented!(): code generation is abandoned where it stands.
Panic(B) == [B EXCEPT !.panicked = TRUE]

\* The statements of a function body run in order: the value of the last step,
\* the steps before it evaluated first.
InOrder(steps) == steps[Len(steps)]

\* (Backend, LLVMValueRef): what a codegen_* of an expression returns.
BV(B, v) == [be |-> B, val |-> v]
\* The Backend with the value of the instruction built last.
Result(B) == BV(B, Built(B))

\* Backend::new.  native is the record of the calls that create and release
\* the native objects the Backend owns: Context::new, Module::new_in_context
\* and IRBuilder::new_in_context, in this order.
NewBackend ==
    [functions |-> <<>>, blocks |-> <<>>, cur |-> NullBB, nval |-> 0,
     ids |-> <<>>, current_func |-> 0,
     current_break |-> NullBB, current_continue |-> NullBB, panicked |-> FALSE,
     tyctxt |-> <<>>, ty_cache |-> <<>>, structs |-> <<>>,
     native |-> <<"LLVMContextCreate", "LLVMModuleCreateWithNameInContext",
                  "LLVMCreateBuilderInContext">>]

\* Drop for Context
DropContext(B) == [B EXCEPT !.native = Append(@, "LLVMContextDispose")]

\* The drop of the Module: its native module is released.
DropModule(B) == [B EXCEPT !.native = Append(@, "LLVMDisposeModule")]

\* The drop of the IRBuilder: the struct has no Drop, nothing is released.
DropIRBuilder(B) == B

\* The drop of a Backend: its fields are dropped in the order of their
\* declaration in the struct, context, module, builder (the other fields own
\* nothing native).
DropBackend(B) == DropIRBuilder(DropModule(DropContext(B)))

\* A slip: an id that is in the map already keeps its slot.
IdsInsert_KeepFirst(ids, id, v) ==
    [i \in 1..(IF id > Len(ids) THEN id ELSE Len(ids)) |->
        IF i <= Len(ids) /\ ids[i] # <<>> THEN ids[i]
        ELSE IF i = id THEN <<v>> ELSE <<>>]

\* self.ids.insert(id, ptr); self.ids[&id] is ids[id][1].
IdsInsert(ids, id, v) ==
    [i \in 1..(IF id > Len(ids) THEN id ELSE Len(ids)) |->
        IF i = id THEN <<v>> ELSE IF i <= Len(ids) THEN ids[i] ELSE <<>>]

\* A slip: Int is lowered to a 16-bit integer type.
codegen_type_Int16(ty) ==
    CASE ty = TVoid -> "void"
      [] ty = TInt -> "i16"
      [] ty = TDouble -> "double"
      [] ty = TBoolean -> "i1"
      [] ty = TString -> "i8*"
      [] OTHER -> "ptr"

\* Backend::codegen_type on the primitive types (their LLVM types).
codegen_type(ty) ==
    CASE ty = TVoid -> "void"
      [] ty = TInt -> "i32"
      [] ty = TDouble -> "double"
      [] ty = TBoolean -> "i1"
      [] ty = TString -> "i8*"
      [] OTHER -> "ptr"

(***************************************************************************)
(* codegen_type with its cache, on the types of a type context.  A ty::Type *)
(* is a handle into the context (here the index of its TypeValue in        *)
(* B.tyctxt), so equal types are equal handles and a struct can name       *)
(* itself below a pointer.  B.structs are the named structs created in the *)
(* LLVM context; the other LLVM types are uniqued by their structure.      *)
(* Function pointer types are left out.                                    *)
(***************************************************************************)
TypeValue(k, sub, name, n) == [k |-> k, sub |-> sub, name |-> name, n |-> n]
TvInt == TypeValue("Int", <<>>, "", 0)
TvPointer(sub) == TypeValue("Pointer", <<sub>>, "", 0)
TvStruct(name, fields) == TypeValue("Struct", fields, name, 0)
TvTuple(types) == TypeValue("Tuple", types, "", 0)
TvArray(sub, size) == TypeValue("Array", <<sub>>, "", size)

\* An LLVMTypeRef: a primitive, a pointer, array or literal struct type, or
\* the n-th named struct of the context.
LType(k, sub, n) == [k |-> k, sub |-> sub, n |-> n]
LPrim(k) == LType(k, <<>>, 0)
LNamed(n) == LType("named", <<>>, n)

\* The result of a call: the Backend after it, the value returned, and
\* whether the call returned within the depth that is followed.
TypeResult(B, val, returned) == [be |-> B, val |-> val, returned |-> returned]

\* The rest of a call runs on the result r of a nested call, if it returned.
Then(r, val) ==
    IF r.returned /\ ~r.be.panicked THEN TypeResult(r.be, val, TRUE) ELSE r

\* self.context.create_struct_named(name): a new opaque struct.
create_struct_named(B, name) ==
    [B EXCEPT !.structs = Append(@, [name |-> name, opaque |-> TRUE, body |-> <<>>])]

\* LLVMStructSetBody(llvm_struct_ty, fields), on the result r of lowering
\* the fields.
struct_set_body(r, h) ==
    IF r.returned /\ ~r.be.panicked
    THEN TypeResult([r.be EXCEPT !.structs[h] = [@ EXCEPT !.opaque = FALSE, !.body = r.val]],
                    LNamed(h), TRUE)
    ELSE r

\* A slip: a named struct is never put in the cache.
ty_cache_insert_NotForStructs(B, ty, llvm_ty) ==
    IF llvm_ty.k = "named" THEN B
    ELSE [B EXCEPT !.ty_cache = [t \in (DOMAIN @) \cup {ty} |->
                                    IF t = ty THEN llvm_ty ELSE @[t]]]

\* self.ty_cache.insert(ty, llvm_ty)
ty_cache_insert(B, ty, llvm_ty) ==
    [B EXCEPT !.ty_cache = [t \in (DOMAIN @) \cup {ty} |->
                               IF t = ty THEN llvm_ty ELSE @[t]]]

RECURSIVE codegen_type_cached(_, _, _)
RECURSIVE codegen_types_from(_, _, _, _, _)

\* The rest of the map over tys once codegen_type has returned for tys[i].
codegen_types_next(r, tys, i, acc, d) ==
    IF r.returned /\ ~r.be.panicked
    THEN codegen_types_from(r.be, tys, i + 1, Append(acc, r.val), d)
    ELSE r

\* tys.iter().map(|ty| self.codegen_type(ty)).collect(), from the i-th on.
codegen_types_from(B, tys, i, acc, d) ==
    IF i > Len(tys) THEN TypeResult(B, acc, TRUE)
    ELSE codegen_types_next(codegen_type_cached(B, tys[i], d), tys, i, acc, d)

\* The Struct arm: the named struct is created and cached, then the fields
\* are lowered and set as its body.
codegen_struct_type(B, ty, tv, d) ==
    struct_set_body(
        codegen_types_from(
            ty_cache_insert(create_struct_named(B, tv.name), ty, LNamed(Len(B.structs) + 1)),
            tv.sub, 1, <<>>, d),
        Len(B.structs) + 1)

\* The Tuple arm, on the result r of lowering the element types.
struct_ty(r) == Then(r, LType("struct", r.val, 0))

\* utils::pointer_ty and utils::array_ty, on the result r of lowering sub.
pointer_ty(r) == Then(r, LType("ptr", <<r.val>>, 0))
array_ty(r, size) == Then(r, LType("array", <<r.val>>, size))

\* let llvm_ty = match *ty { ... }
codegen_type_match(B, ty, tv, d) ==
    CASE tv.k = "Incomplete" -> TypeResult(Panic(B), LPrim("none"), TRUE)
      [] tv.k = "Void" -> TypeResult(B, LPrim("void"), TRUE)
      [] tv.k = "Int" -> TypeResult(B, LPrim("i32"), TRUE)
      [] tv.k = "Double" -> TypeResult(B, LPrim("double"), TRUE)
      [] tv.k = "Boolean" -> TypeResult(B, LPrim("i1"), TRUE)
      [] tv.k = "String" -> TypeResult(B, LType("ptr", <<LPrim("i8")>>, 0), TRUE)
      [] tv.k \in {"LValue", "Pointer"} -> pointer_ty(codegen_type_cached(B, tv.sub[1], d))
      [] tv.k = "Struct" -> codegen_struct_type(B, ty, tv, d)
      [] tv.k = "Tuple" -> struct_ty(codegen_types_from(B, tv.sub, 1, <<>>, d))
      [] tv.k = "Array" -> array_ty(codegen_type_cached(B, tv.sub[1], d), tv.n)

\* self.ty_cache.insert(ty, llvm_ty); llvm_ty
codegen_type_insert(r, ty) ==
    IF r.returned /\ ~r.be.panicked
    THEN TypeResult(ty_cache_insert(r.be, ty, r.val), r.val, TRUE)
    ELSE r

\* Backend::codegen_type, with d the depth of nested calls still followed: a
\* call below it stands for one that has not returned.
codegen_type_cached(B, ty, d) ==
    IF d = 0 THEN TypeResult(B, LPrim("none"), FALSE)
    ELSE IF ty \in DOMAIN B.ty_cache THEN TypeResult(B, B.ty_cache[ty], TRUE)
    ELSE codegen_type_insert(codegen_type_match(B, ty, B.tyctxt[ty], d - 1), ty)

\* Module::add_function and Module::get_named_function (0 when there is none).
AddFunction(B, name) == [B EXCEPT !.functions = Append(@, name)]
GetNamedFunction(B, name) ==
    LET hits == {i \in 1..Len(B.functions) : B.functions[i] = name}
    IN  IF hits = {} THEN 0 ELSE CHOOSE i \in hits : \A j \in hits : i <= j

\* The builder call that codegen_binop selects for each operator: the opcode and
\* the comparison predicate.
BinopBuilder(binop) ==
    CASE binop = "IntPlus" -> <<"add", "">>
      [] binop = "DoublePlus" -> <<"fadd", "">>
      [] binop = "IntMinus" -> <<"sub", "">>
      [] binop = "DoubleMinus" -> <<"fsub", "">>
      [] binop = "IntMultiply" -> <<"mul", "">>
      [] binop = "DoubleMultiply" -> <<"fmul", "">>
      [] binop = "IntDivide" -> <<"sdiv", "">>
      [] binop = "DoubleDivide" -> <<"fdiv", "">>
      [] binop = "IntModulo" -> <<"srem", "">>
      [] binop = "IntEqual" -> <<"icmp", "EQ">>
      [] binop = "DoubleEqual" -> <<"fcmp", "UEQ">>
      [] binop = "BooleanEqual" -> <<"icmp", "EQ">>
      [] binop = "IntNotEqual" -> <<"icmp", "NE">>
      [] binop = "DoubleNotEqual" -> <<"fcmp", "UNE">>
      [] binop = "BooleanNotEqual" -> <<"icmp", "NE">>
      [] binop = "IntLess" -> <<"icmp", "SLT">>
      [] binop = "DoubleLess" -> <<"fcmp", "ULT">>
      [] binop = "IntLessEqual" -> <<"icmp", "SLE">>
      [] binop = "DoubleLessEqual" -> <<"fcmp", "ULE">>
      [] binop = "IntGreater" -> <<"icmp", "SGT">>
      [] binop = "DoubleGreater" -> <<"fcmp", "UGT">>
      [] binop = "IntGreaterEqual" -> <<"icmp", "SGE">>
      [] binop = "DoubleGreaterEqual" -> <<"fcmp", "UGE">>
      [] binop = "PtrPlusOffset" -> <<"gep", "">>
      [] binop = "PtrMinusOffset" -> <<"neg_gep", "">>
      [] binop = "PtrDiff" -> <<"unimplemented", "">>

(***************************************************************************)
(* Backend::codegen_*: each takes the Backend and returns it as the call   *)
(* leaves it (and the value, for an expression).  p is the position of the *)
(* node being lowered.                                                     *)
(***************************************************************************)
RECURSIVE codegen_expression(_, _, _)
RECURSIVE codegen_statement(_, _, _)
RECURSIVE codegen_statements_from(_, _, _, _)

\* Backend::codegen_next_bb
codegen_next_bb(B, p) ==
    PositionAtEnd(AppendBB(B, B.current_func, "next", p), NewBB(B, 1))

\* Backend::codegen_literal
codegen_literal(B, e) ==
    IF e.k = "IntLiteral" THEN BV(B, ConstInt(codegen_type(TInt), e.i64))
    ELSE BV(B, ConstInt(codegen_type(TBoolean), I64(e.n)))

\* Backend::codegen_identifier
codegen_identifier(B, id) == BV(B, B.ids[id][1])

\* Backend::codegen_l2r_expr
codegen_l2r_expr(B, e, p) ==
    LET r == codegen_expression(B, e.sub[1], p \o <<1>>)
        B1 == Build(r.be, Ins("load", <<r.val>>, <<>>, "", "l2r", p))
    IN  BV(B1, Built(B1))

\* Backend::codegen_assign
codegen_assign(B, e, p) ==
    LET l == codegen_expression(B, e.sub[1], p \o <<1>>)
        r == codegen_expression(l.be, e.sub[2], p \o <<2>>)
    IN  BV(Build(r.be, Ins("store", <<r.val, l.val>>, <<>>, "", "assign", p)), r.val)

\* Backend::codegen_binop
codegen_binop(B, e, p) ==
    LET l == codegen_expression(B, e.sub[1], p \o <<1>>)
        r == codegen_expression(l.be, e.sub[2], p \o <<2>>)
        f == BinopBuilder(e.s)
    IN  IF f[1] = "unimplemented" THEN BV(Panic(r.be), r.val)
        ELSE IF f[1] = "neg_gep"
        THEN LET B1 == Build(r.be, Ins("sub", <<ConstInt(codegen_type(TInt), I64(0)), r.val>>, <<>>, "",
                                       "binop", p))
                 B2 == Build(B1, Ins("gep", <<l.val, Built(B1)>>, <<>>, "", "binop", p))
             IN  BV(B2, Built(B2))
        ELSE LET B1 == Build(r.be, Ins(f[1], <<l.val, r.val>>, <<>>, f[2], "binop", p))
             IN  BV(B1, Built(B1))

\* Backend::codegen_unop
codegen_unop(B, e, p) ==
    LET r == codegen_expression(B, e.sub[1], p \o <<1>>)
        B1 == CASE e.s = "IntMinus" ->
                     Build(r.be, Ins("sub", <<ConstInt(codegen_type(TInt), I64(0)), r.val>>,
                                     <<>>, "", "unop", p))
                [] e.s = "DoubleMinus" ->
                     Build(r.be, Ins("fsub", <<VConst(0, codegen_type(TDouble)), r.val>>,
                                     <<>>, "", "unop", p))
                [] e.s = "BooleanNot" ->
                     Build(r.be, Ins("not", <<r.val>>, <<>>, "", "unop", p))
                [] OTHER -> r.be
    IN  IF e.s = "PointerDeref" THEN r ELSE BV(B1, Built(B1))

\* Backend::codegen_incdecrement
codegen_incdecrement(B, e, p, inc) ==
    LET r == codegen_expression(B, e.sub[1], p \o <<1>>)
        c1 == ConstInt(codegen_type(TInt), I64(1))
        B1 == Build(r.be, Ins("load", <<r.val>>, <<>>, "", "incdec", p))
        B2 == Build(B1, Ins(IF inc THEN "add" ELSE "sub", <<Built(B1), c1>>, <<>>, "",
                            "incdec", p))
        B3 == Build(B2, Ins("store", <<Built(B2), r.val>>, <<>>, "", "incdec", p))
    IN  BV(B3, r.val)

\* Backend::codegen_lvalue_unop (codegen_addressof returns its operand's value)
codegen_lvalue_unop(B, e, p) ==
    CASE e.s = "IntIncrement" -> codegen_incdecrement(B, e, p, TRUE)
      [] e.s = "IntDecrement" -> codegen_incdecrement(B, e, p, FALSE)
      [] OTHER -> codegen_expression(B, e.sub[1], p \o <<1>>)

\* The builder call and destination type of each ir::CastKind.
CastBuilder(kind) ==
    CASE kind = "IntToDouble" -> <<"si_to_fp", codegen_type(TDouble)>>
      [] kind = "DoubleToInt" -> <<"fp_to_si", codegen_type(TInt)>>
      [] kind = "BooleanToInt" -> <<"zext", codegen_type(TInt)>>
      [] kind = "IntToBoolean" -> <<"trunc", codegen_type(TBoolean)>>
      [] kind = "PtrToInt" -> <<"ptr_to_int", codegen_type(TInt)>>
      [] OTHER -> <<"int_to_ptr", "ptr">>

\* Backend::codegen_cast
codegen_cast(B, e, p) ==
    LET r == codegen_expression(B, e.sub[1], p \o <<1>>)
        c == CastBuilder(e.s)
        B1 == Build(r.be, Ins(c[1], <<r.val>>, <<>>, c[2], "cast", p))
    IN  BV(B1, Built(B1))

\* The final part of codegen_ternary: the false branch is closed and the PHI of
\* final_bb takes true_value from true_from and f's value from false_from.
codegen_ternary_phi(f, true_value, true_from, false_from, final_bb, p) ==
    LET B6 == Build(f.be, Ins("br", <<>>, <<final_bb>>, "", "ternary_false", p))
        B7 == Build(PositionAtEnd(B6, final_bb),
                    Ins("phi", <<true_value, f.val>>, <<true_from, false_from>>, "",
                        "ternary_phi", p))
    IN  InOrder(<<B6, B7, Result(B7)>>)

\* A slip: the PHI names the blocks the branches started in, not the blocks
\* their evaluation ended in.
codegen_ternary_false_StartBlocks(t, e, p, true_bb, false_bb, final_bb) ==
    LET B5 == Build(t.be, Ins("br", <<>>, <<final_bb>>, "", "ternary_true", p))
        f == codegen_expression(PositionAtEnd(B5, false_bb), e.sub[3], p \o <<3>>)
    IN  InOrder(<<B5, f, codegen_ternary_phi(f, t.val, true_bb, false_bb, final_bb, p)>>)

codegen_ternary_branches_StartBlocks(c, e, p) ==
    LET true_bb == NewBB(c.be, 1)
        false_bb == NewBB(c.be, 2)
        final_bb == NewBB(c.be, 3)
        B3 == AppendBB(AppendBB(AppendBB(c.be, c.be.current_func, "true_bb", p),
                                c.be.current_func, "false_bb", p),
                       c.be.current_func, "end_bb", p)
        B4 == Build(B3, Ins("cond_br", <<c.val>>, <<true_bb, false_bb>>, "",
                            "ternary_cond", p))
        t == codegen_expression(PositionAtEnd(B4, true_bb), e.sub[2], p \o <<2>>)
    IN  InOrder(<<B3, B4, t,
                  codegen_ternary_false_StartBlocks(t, e, p, true_bb, false_bb, final_bb)>>)

codegen_ternary_StartBlocks(B, e, p) ==
    codegen_ternary_branches_StartBlocks(codegen_expression(B, e.sub[1], p \o <<1>>), e, p)

\* codegen_ternary once the true branch is evaluated (t): true_bb is closed, the
\* false branch is evaluated, and the builder's insert blocks at the end of the
\* two evaluations are the PHI's incoming blocks.
codegen_ternary_false(t, e, p, false_bb, final_bb) ==
    LET B5 == Build(t.be, Ins("br", <<>>, <<final_bb>>, "", "ternary_true", p))
        f == codegen_expression(PositionAtEnd(B5, false_bb), e.sub[3], p \o <<3>>)
    IN  InOrder(<<B5, f,
                  codegen_ternary_phi(f, t.val, GetInsertBlock(t.be), GetInsertBlock(f.be),
                                      final_bb, p)>>)

\* codegen_ternary once the condition is evaluated (c): the three blocks are
\* appended, the conditional branch is built and the true branch is evaluated.
codegen_ternary_branches(c, e, p) ==
    LET true_bb == NewBB(c.be, 1)
        false_bb == NewBB(c.be, 2)
        final_bb == NewBB(c.be, 3)
        B3 == AppendBB(AppendBB(AppendBB(c.be, c.be.current_func, "true_bb", p),
                                c.be.current_func, "false_bb", p),
                       c.be.current_func, "end_bb", p)
        B4 == Build(B3, Ins("cond_br", <<c.val>>, <<true_bb, false_bb>>, "",
                            "ternary_cond", p))
        t == codegen_expression(PositionAtEnd(B4, true_bb), e.sub[2], p \o <<2>>)
    IN  InOrder(<<B3, B4, t, codegen_ternary_false(t, e, p, false_bb, final_bb)>>)

\* Backend::codegen_ternary
codegen_ternary(B, e, p) ==
    codegen_ternary_branches(codegen_expression(B, e.sub[1], p \o <<1>>), e, p)

\* The arguments of a call from the i-th on, lowered in order: the Backend and
\* the values of the callee and of the arguments so far (vals) with theirs.
RECURSIVE codegen_args_from(_, _, _, _, _)
codegen_args_from(B, e, p, i, vals) ==
    IF i > Len(e.sub) THEN BV(B, vals)
    ELSE LET r == codegen_expression(B, e.sub[i], p \o <<i>>)
         IN  codegen_args_from(r.be, e, p, i + 1, Append(vals, r.val))

\* Backend::codegen_funccall
codegen_funccall(B, e, p) ==
    LET r == codegen_args_from(B, e, p, 1, <<>>)
        B1 == Build(r.be, Ins("call", r.val, <<>>, "", "call", p))
    IN  BV(B1, Built(B1))

\* Backend::codegen_expression and Backend::codegen_value
codegen_expression(B, e, p) ==
    CASE e.k \in {"IntLiteral", "BooleanLiteral"} -> codegen_literal(B, e)
      [] e.k = "Local" -> codegen_identifier(B, e.n)
      [] e.k = "LValueToRValue" -> codegen_l2r_expr(B, e, p)
      [] e.k = "Assign" -> codegen_assign(B, e, p)
      [] e.k = "BinaryOperator" -> codegen_binop(B, e, p)
      [] e.k = "UnaryOperator" -> codegen_unop(B, e, p)
      [] e.k = "LValueUnaryOperator" -> codegen_lvalue_unop(B, e, p)
      [] e.k = "Cast" -> codegen_cast(B, e, p)
      [] e.k = "Ternary" -> codegen_ternary(B, e, p)
      [] e.k = "Global" -> BV(B, VFunc(GetNamedFunction(B, e.s)))
      [] e.k = "FunctionCall" -> codegen_funccall(B, e, p)

\* Backend::codegen_block_statement: the statements of list from the i-th on.
codegen_statements_from(B, list, p, i) ==
    IF B.panicked \/ i > Len(list) THEN B
    ELSE codegen_statements_from(codegen_statement(B, list[i], p \o <<i>>), list, p, i + 1)

codegen_block_statement(B, list, p) == codegen_statements_from(B, list, p, 1)

\* codegen_if once the condition is evaluated (c).
codegen_if_branches(c, s, p) ==
    LET then_bb == NewBB(c.be, 1)
        else_bb == NewBB(c.be, 2)
        end_bb == NewBB(c.be, 3)
        B3 == AppendBB(AppendBB(AppendBB(c.be, c.be.current_func, "then", p),
                                c.be.current_func, "else", p),
                       c.be.current_func, "end", p)
        B4 == Build(B3, Ins("cond_br", <<c.val>>, <<then_bb, else_bb>>, "", "if_cond", p))
        B5 == codegen_block_statement(PositionAtEnd(B4, then_bb), s.a, p \o <<SlotBody>>)
        B6 == Build(B5, Ins("br", <<>>, <<end_bb>>, "", "if_then_end", p))
        B7 == codegen_block_statement(PositionAtEnd(B6, else_bb), s.b, p \o <<SlotElse>>)
        B8 == Build(B7, Ins("br", <<>>, <<end_bb>>, "", "if_else_end", p))
    IN  InOrder(<<B3, B4, B5, B6, B7, B8, PositionAtEnd(B8, end_bb)>>)

\* Backend::codegen_if
codegen_if(B, s, p) ==
    codegen_if_branches(codegen_expression(B, s.e[1], p \o <<SlotExpr, 1>>), s, p)

\* self.current_break = end_bb; self.current_continue = loop_bb
SetLoopTargets(B, end_bb, loop_bb) ==
    IF B.panicked THEN B
    ELSE [B EXCEPT !.current_break = end_bb, !.current_continue = loop_bb]

\* if let Some(step) = step { self.codegen_expression(step); }
codegen_for_step(B, s, p) ==
    IF s.s # <<>> THEN codegen_expression(B, s.s[1], p \o <<SlotStep, 1>>).be ELSE B

\* codegen_for once the condition is evaluated (c) in loop_bb.
codegen_for_body(c, s, p, loop_bb, then_bb, end_bb) ==
    LET B6 == Build(c.be, Ins("cond_br", <<c.val>>, <<then_bb, end_bb>>, "", "for_cond", p))
        B7 == SetLoopTargets(B6, end_bb, loop_bb)
        B8 == codegen_block_statement(PositionAtEnd(B7, then_bb), s.a, p \o <<SlotBody>>)
        B9 == codegen_for_step(B8, s, p)
        B10 == Build(B9, Ins("br", <<>>, <<loop_bb>>, "", "for_back", p))
    IN  InOrder(<<B6, B7, B8, B9, B10, PositionAtEnd(B10, end_bb)>>)

\* Backend::codegen_for
codegen_for(B, s, p) ==
    LET loop_bb == NewBB(B, 1)
        then_bb == NewBB(B, 2)
        end_bb == NewBB(B, 3)
        B3 == AppendBB(AppendBB(AppendBB(B, B.current_func, "loop", p),
                                B.current_func, "then", p),
                       B.current_func, "end", p)
        B4 == codegen_statement(B3, s.b[1], p \o <<SlotInit, 1>>)
        B5 == Build(B4, Ins("br", <<>>, <<loop_bb>>, "", "for_enter", p))
        c == codegen_expression(PositionAtEnd(B5, loop_bb), s.e[1], p \o <<SlotExpr, 1>>)
    IN  InOrder(<<B3, B4, B5, c, codegen_for_body(c, s, p, loop_bb, then_bb, end_bb)>>)

\* builder.build_ret(expr) on the evaluated expression r
build_ret(r, p) == Build(r.be, Ins("ret", <<r.val>>, <<>>, "", "return", p))

\* A slip: no fresh block is opened after the `ret`.
codegen_return_statement_NoNextBB(B, s, p) ==
    IF s.e # <<>>
    THEN build_ret(codegen_expression(B, s.e[1], p \o <<SlotExpr, 1>>), p)
    ELSE Build(B, Ins("ret_void", <<>>, <<>>, "", "return", p))

\* Backend::codegen_return_statement
codegen_return_statement(B, s, p) ==
    IF s.e # <<>>
    THEN codegen_next_bb(build_ret(codegen_expression(B, s.e[1], p \o <<SlotExpr, 1>>), p),
                         p)
    ELSE codegen_next_bb(Build(B, Ins("ret_void", <<>>, <<>>, "", "return", p)), p)

\* Backend::codegen_break_statement
codegen_break_statement(B, p) ==
    codegen_next_bb(Build(B, Ins("br", <<>>, <<B.current_break>>, "", "break", p)), p)

\* Backend::codegen_continue_statement
codegen_continue_statement(B, p) ==
    codegen_next_bb(Build(B, Ins("br", <<>>, <<B.current_continue>>, "", "continue", p)), p)

\* Backend::codegen_statement
codegen_statement(B, s, p) ==
    CASE s.k = "Block" -> codegen_block_statement(B, s.a, p \o <<SlotBody>>)
      [] s.k = "If" -> codegen_if(B, s, p)
      [] s.k = "For" -> codegen_for(B, s, p)
      [] s.k = "Return" -> codegen_return_statement(B, s, p)
      [] s.k = "Expression" -> codegen_expression(B, s.e[1], p \o <<SlotExpr, 1>>).be
      [] s.k = "Break" -> codegen_break_statement(B, p)
      [] s.k = "Continue" -> codegen_continue_statement(B, p)

\* A slip: the fall-through path returns instead of being unreachable.
codegen_block_statement_terminated_RetVoid(B, list, p) ==
    Build(codegen_block_statement(B, list, p), Ins("ret_void", <<>>, <<>>, "", "end", p))

\* Backend::codegen_block_statement_terminated
codegen_block_statement_terminated(B, list, p) ==
    Build(codegen_block_statement(B, list, p), Ins("unreachable", <<>>, <<>>, "", "end", p))

\* Backend::codegen_parameter: the parameters from the i-th on.
RECURSIVE codegen_parameters_from(_, _, _)
codegen_parameters_from(B, params, i) ==
    IF i > Len(params) THEN B
    ELSE LET llvm_ty == codegen_type(params[i].ty)
             B1 == Build(B, Ins("alloca", <<>>, <<>>, llvm_ty, "parameter", <<>>))
             ptr == Built(B1)
             B2 == Build(B1, Ins("store", <<VParam(i), ptr>>, <<>>, "", "parameter", <<>>))
             B3 == [B2 EXCEPT !.ids = IdsInsert(@, params[i].id, ptr)]
         IN  InOrder(<<B1, B2, B3, codegen_parameters_from(B3, params, i + 1)>>)

\* Backend::codegen_vardecl: the declarations from the i-th on.
RECURSIVE codegen_vardecls_from(_, _, _)
codegen_vardecls_from(B, decls, i) ==
    IF i > Len(decls) THEN B
    ELSE LET llvm_ty == codegen_type(decls[i].ty)
             B1 == Build(B, Ins("alloca", <<>>, <<>>, llvm_ty, "vardecl", <<>>))
             B2 == [B1 EXCEPT !.ids = IdsInsert(@, decls[i].id, Built(B1))]
         IN  InOrder(<<B1, B2, codegen_vardecls_from(B2, decls, i + 1)>>)

\* Backend::pre_codegen_function
pre_codegen_function(B, f) == AddFunction(B, f.name)

\* Backend::pre_codegen_extern_function
pre_codegen_extern_function(B, exfunc) == AddFunction(B, exfunc.name)

\* Backend::codegen_function
codegen_function(B, f) ==
    LET func_ref == GetNamedFunction(B, f.name)
        B1 == AppendBB(B, func_ref, "entry", <<>>)
        B2 == [PositionAtEnd(B1, NewBB(B, 1)) EXCEPT !.current_func = func_ref]
        B3 == codegen_parameters_from(B2, f.parameters, 1)
        B4 == codegen_vardecls_from(B3, f.var_declarations, 1)
    IN  InOrder(<<B1, B2, B3, B4,
                  codegen_block_statement_terminated(B4, f.body, <<SlotBody>>)>>)

(***************************************************************************)
(* llvm_codegen_program: the pre-pass declares every function, the second  *)
(* loop lowers every body.                                                 *)
(***************************************************************************)
Stage(st, i) == [stage |-> st, i |-> i]

NoRun ==
    [status |-> "idle", args |-> <<>>, bb |-> 0, ip |-> 0, prev |-> 0,
     regs |-> <<>>, mem |-> <<>>, written |-> {}, trace |-> <<>>, ret |-> 0]

\* let mut backend = Backend::new(strings, types), on one of the programs of P.
BackendInit(P) ==
    /\ prog \in P
    /\ be = NewBackend
    /\ phase = Stage("pre", 1)
    /\ run = NoRun

\* A slip: no pre-pass; each declaration is declared and lowered in its turn.
PreCodegen_SinglePass ==
    /\ phase.stage = "pre"
    /\ be' = IF IsFunction(prog[phase.i])
             THEN codegen_function(pre_codegen_function(be, prog[phase.i]), prog[phase.i])
             ELSE pre_codegen_extern_function(be, prog[phase.i])
    /\ phase' = IF phase.i < Len(prog) THEN Stage("pre", phase.i + 1) ELSE Stage("done", 0)
    /\ UNCHANGED <<prog, run, tcVars, lexVars>>

\* One turn of the first loop: the declaration is declared in the module.
PreCodegen ==
    /\ phase.stage = "pre"
    /\ be' = IF IsFunction(prog[phase.i])
             THEN pre_codegen_function(be, prog[phase.i])
             ELSE pre_codegen_extern_function(be, prog[phase.i])
    /\ phase' = IF phase.i < Len(prog) THEN Stage("pre", phase.i + 1) ELSE Stage("gen", 1)
    /\ UNCHANGED <<prog, run, tcVars, lexVars>>

\* One turn of the second loop: backend.codegen_function(function) if the
\* declaration is a Function.
CodegenFunction ==
    /\ phase.stage = "gen"
    /\ be' = IF IsFunction(prog[phase.i]) THEN codegen_function(be, prog[phase.i]) ELSE be
    /\ phase' = IF be'.panicked THEN Stage("unwinding", phase.i)
                ELSE IF phase.i < Len(prog) THEN Stage("gen", phase.i + 1)
                ELSE Stage("done", 0)
    /\ UNCHANGED <<prog, run, tcVars, lexVars>>

\* The panic unwinds llvm_codegen_program: its local `backend` is dropped.
Unwind ==
    /\ phase.stage = "unwinding"
    /\ be' = DropBackend(be)
    /\ phase' = Stage("dropped", phase.i)
    /\ UNCHANGED <<prog, run, tcVars, lexVars>>

(***************************************************************************)
(* The emitted code, run: one instruction at a time, from the entry block  *)
(* of the first function.  A value is an integer (a Boolean is 0 or 1, a   *)
(* pointer is the number of the alloca that made the slot).                *)
(***************************************************************************)
ArgValues(ty) == IF ty = TBoolean THEN {0, 1} ELSE (0 - MaxInt)..MaxInt

RECURSIVE ArgLists(_)
ArgLists(params) ==
    IF params = <<>> THEN {<<>>}
    ELSE {<<v>> \o rest : v \in ArgValues(params[1].ty), rest \in ArgLists(Tail(params))}

EntryBlock(B, fn) == CHOOSE b \in 1..Len(B.blocks) :
                        B.blocks[b].fn = fn /\ B.blocks[b].name = "entry"

\* The function is called with some arguments.
Call ==
    /\ phase.stage = "done" /\ ~be.panicked /\ run.status = "idle"
    /\ IsFunction(prog[1])
    /\ \E args \in ArgLists(prog[1].parameters) :
          run' = [NoRun EXCEPT !.status = "running", !.args = args,
                               !.bb = EntryBlock(be, GetNamedFunction(be, prog[1].name)),
                               !.ip = 1,
                               !.regs = [r \in 1..be.nval |-> 0],
                               !.mem = [r \in 1..be.nval |-> 0]]
    /\ UNCHANGED <<prog, be, phase, tcVars, lexVars>>

\* The value of an operand in the run R.
Val(R, v) ==
    CASE v.k = "const" -> v.n
      [] v.k = "inst" -> R.regs[v.n]
      [] v.k = "param" -> R.args[v.n]
      [] v.k = "func" -> v.n

Undefined(R) == [R EXCEPT !.status = "undefined"]
Next1(R) == [R EXCEPT !.ip = @ + 1]
Define(R, ins, x) == Next1([R EXCEPT !.regs[ins.res] = x])
Jump(R, bb) ==
    IF bb = NullBB THEN Undefined(R) ELSE [R EXCEPT !.prev = R.bb, !.bb = bb, !.ip = 1]

ICmp(pred, a, b) ==
    LET t == CASE pred = "EQ" -> a = b
               [] pred = "NE" -> a # b
               [] pred = "SLT" -> a < b
               [] pred = "SLE" -> a <= b
               [] pred = "SGT" -> a > b
               [] pred = "SGE" -> a >= b
    IN  IF t THEN 1 ELSE 0

\* The operands and the result of add, sub and mul have the type of Int
\* values, codegen_type(Int): the arithmetic is done on its bytes.
IntBytes(a) == Bytes(a, TypeBytes(codegen_type(TInt)))
IntOp(bytes) == Signed(bytes)

\* The effect of instruction ins on the run R.
Exec(R, ins) ==
    LET a == IF Len(ins.vals) >= 1 THEN Val(R, ins.vals[1]) ELSE 0
        b == IF Len(ins.vals) >= 2 THEN Val(R, ins.vals[2]) ELSE 0
    IN  CASE ins.op = "alloca" -> Define(R, ins, ins.res)
          [] ins.op = "store" ->
                Next1([R EXCEPT !.mem[b] = a, !.written = @ \cup {b}])
          [] ins.op = "load" ->
                IF a \in R.written THEN Define(R, ins, R.mem[a]) ELSE Undefined(R)
          [] ins.op = "add" -> Define(R, ins, IntOp(AddBytes(IntBytes(a), IntBytes(b))))
          [] ins.op = "sub" -> Define(R, ins, IntOp(SubBytes(IntBytes(a), IntBytes(b))))
          [] ins.op = "mul" -> Define(R, ins, IntOp(MulBytes(IntBytes(a), IntBytes(b))))
          [] ins.op = "icmp" -> Define(R, ins, ICmp(ins.aux, a, b))
          [] ins.op = "not" -> Define(R, ins, 1 - a)
          [] ins.op = "trunc" -> Define(R, ins, a % 2)
          [] ins.op = "zext" -> Define(R, ins, a)
          [] ins.op = "phi" ->
                IF R.prev = ins.bbs[1] THEN Define(R, ins, a)
                ELSE IF R.prev = ins.bbs[2] THEN Define(R, ins, b)
                ELSE Undefined(R)
          [] ins.op = "br" -> Jump(R, ins.bbs[1])
          [] ins.op = "cond_br" -> Jump(R, IF a # 0 THEN ins.bbs[1] ELSE ins.bbs[2])
          [] ins.op = "ret" -> [R EXCEPT !.status = "returned", !.ret = a]
          [] ins.op = "ret_void" -> [R EXCEPT !.status = "returned"]
          [] OTHER -> Undefined(R)

\* The next instruction runs; running off the end of a block is undefined.
Step ==
    /\ run.status = "running" /\ Len(run.trace) < MaxSteps
    /\ LET instrs == be.blocks[run.bb].instrs
       IN  IF run.ip > Len(instrs) THEN run' = Undefined(run)
           ELSE LET ins == instrs[run.ip]
                    R == [run EXCEPT !.trace = Append(@, ins.res)]
                IN  run' = Exec(R, ins)
    /\ UNCHANGED <<prog, be, phase, tcVars, lexVars>>

\* The caller's record of a call of codegen_type.
TypeCall(r, ty) == [ty |-> ty, returned |-> r.returned, llvm_ty |-> r.val]

\* The state after a call with result r.
CodegenTypeReturn(r, ty) ==
    /\ be' = r.be
    /\ phase' = [phase EXCEPT !.stage = IF r.returned THEN "types" ELSE "overflow",
                              !.calls = Append(@, TypeCall(r, ty))]

\* One call of codegen_type, on a type of the context.
CodegenType ==
    /\ phase.stage = "types" /\ Len(phase.calls) < MaxTypeCalls
    /\ \E ty \in 1..Len(be.tyctxt) :
          CodegenTypeReturn(codegen_type_cached(be, ty, MaxCallDepth), ty)
    /\ UNCHANGED <<prog, run, tcVars, lexVars>>

\* The type contexts: a struct that points to itself, two structs that point
\* to each other, a struct that points to itself through a tuple, and a
\* struct of an array of tuples.
TypeContexts ==
    {<<TvInt, TvStruct("A", <<1, 3>>), TvPointer(2)>>,
     <<TvStruct("A", <<2>>), TvPointer(3), TvStruct("B", <<4>>), TvPointer(1)>>,
     <<TvInt, TvStruct("A", <<3>>), TvTuple(<<1, 4>>), TvPointer(2)>>,
     <<TvInt, TvTuple(<<1, 1>>), TvArray(2, 2), TvStruct("C", <<1, 3>>)>>}

(***************************************************************************)
(* The programs lowered: one function f(x) whose body is built from the    *)
(* statements and expressions of the IR.                                   *)
(***************************************************************************)
Param(ty, id) == [ty |-> ty, id |-> id]
X == LValueToRValue(Local(1))
LogicalAnd(a, b) == Ternary(a, b, BooleanLiteral(FALSE))
LogicalOr(a, b) == Ternary(a, BooleanLiteral(TRUE), b)

\* Statement lists of exactly n statements (nested ones counted); Break and
\* Continue only inside a loop.
RECURSIVE StmtLists(_, _)
RECURSIVE Stmts(_, _)
StmtLists(n, inLoop) ==
    IF n = 0 THEN {<<>>}
    ELSE UNION {{<<s>> \o rest : s \in Stmts(k, inLoop), rest \in StmtLists(n - k, inLoop)}
                : k \in 1..n}

Stmts(k, inLoop) ==
    (IF k = 1
     THEN {SReturn(<<IntLiteral(1)>>), SExpression(LogicalAnd(X, X))}
            \cup (IF inLoop THEN {SBreak, SContinue} ELSE {})
     ELSE {})
    \cup {SBlock(l) : l \in StmtLists(k - 1, inLoop) \ {<<>>}}
    \cup UNION {{SIf(X, a, b) : a \in StmtLists(i, inLoop),
                                b \in StmtLists(k - 1 - i, inLoop)} : i \in 0..(k - 1)}
    \cup {SFor(SExpression(X), X, <<X>>, l) : l \in StmtLists(k - 1, TRUE)}

StmtPrograms ==
    {<<Function("f", TInt, <<Param(TBoolean, 1)>>, <<>>, body)>> :
        body \in UNION {StmtLists(n, FALSE) : n \in 0..MaxStmts}}

\* Functions that return nothing: bodies that fall through, that return
\* explicitly, and that do the one or the other by their argument; and a
\* program of a void function and an Int function.
VoidBodies ==
    {<<>>,
     <<SExpression(LogicalAnd(X, X))>>,
     <<SReturn(<<>>)>>,
     <<SIf(X, <<SReturn(<<>>)>>, <<>>)>>,
     <<SIf(X, <<>>, <<SReturn(<<>>)>>), SReturn(<<>>)>>,
     <<SFor(SExpression(X), X, <<X>>, <<SBreak>>)>>}
VoidPrograms ==
    {<<Function("f", TVoid, <<Param(TBoolean, 1)>>, <<>>, body)>> : body \in VoidBodies}
    \cup {<<Function("f", TVoid, <<>>, <<>>, <<>>),
            Function("g", TInt, <<>>, <<>>, <<SReturn(<<IntLiteral(1)>>)>>)>>}

\* Boolean expressions with exactly n Ternary nodes.
RECURSIVE BoolExprs(_)
BoolExprs(n) ==
    IF n = 0 THEN {BooleanLiteral(FALSE), X}
    ELSE UNION {{LogicalAnd(a, b) : a \in BoolExprs(i), b \in BoolExprs(n - 1 - i)}
                  \cup {LogicalOr(a, b) : a \in BoolExprs(i), b \in BoolExprs(n - 1 - i)}
                : i \in 0..(n - 1)}

TernaryPrograms ==
    {<<Function("f", TBoolean, <<Param(TBoolean, 1)>>, <<>>, <<SReturn(<<e>>)>>)>> :
        e \in UNION {BoolExprs(n) : n \in 1..MaxTernaries}}

CastPrograms ==
    {<<Function("f", TBoolean, <<Param(TInt, 1)>>, <<>>,
                <<SReturn(<<Cast("IntToBoolean", e)>>)>>)>> :
        e \in {X} \cup {IntLiteral(v) : v \in (0 - MaxInt)..MaxInt}}
    \cup {<<Function("f", TInt, <<Param(TBoolean, 1)>>, <<>>,
                     <<SReturn(<<Cast("BooleanToInt", X)>>)>>)>>}

\* Three declarations that refer to each other: f calls g and the extern e, g
\* calls f; in every order.
DeclF ==
    Function("f", TInt, <<Param(TBoolean, 1)>>, <<>>,
             <<SExpression(FunctionCall(Global("g"), <<X>>)),
               SExpression(FunctionCall(Global("e"), <<>>)),
               SReturn(<<IntLiteral(1)>>)>>)
DeclG ==
    Function("g", TInt, <<Param(TBoolean, 1)>>, <<>>,
             <<SReturn(<<FunctionCall(Global("f"), <<X>>)>>)>>)
DeclE == ExternFunction("e", TInt)

RECURSIVE Orders(_)
Orders(S) ==
    IF S = {} THEN {<<>>}
    ELSE UNION {{<<d>> \o rest : rest \in Orders(S \ {d})} : d \in S}

CallPrograms == Orders({DeclF, DeclG, DeclE})

\* Two functions whose identifier ids both start at 1: f has a parameter and
\* a variable, g two parameters; each assigns one local to the other and
\* returns it.  In both orders.
LocalsF ==
    Function("f", TInt, <<Param(TInt, 1)>>, <<Param(TInt, 2)>>,
             <<SExpression(Assign(Local(2), X)),
               SReturn(<<LValueToRValue(Local(2))>>)>>)
LocalsG ==
    Function("g", TInt, <<Param(TInt, 1), Param(TInt, 2)>>, <<>>,
             <<SExpression(Assign(Local(1), LValueToRValue(Local(2)))),
               SReturn(<<X>>)>>)
LocalsPrograms == Orders({LocalsF, LocalsG})

\* 64-bit Int literals at the edges of the 32-bit and the 64-bit range:
\* 0, 1, -1, 2^16, 2^31 - 1, 2^31, 2^32 - 1, 2^32, 2^32 + 1, -2^31,
\* -2^31 - 1 and 2^63 - 1.
WideLiterals ==
    {IntLiteral64(b) : b \in {I64(0), I64(1), I64(0 - 1), I64(65536), I64(MaxI32),
                              Wide(0, MinI32), Wide(0, 0 - 1), Wide(1, 0), Wide(1, 1),
                              I64(MinI32), Wide(0 - 1, MaxI32), Wide(MaxI32, 0 - 1)}}

\* The Int expressions: a literal, its negation, and the sum, difference
\* and product of two literals.
WideExprs ==
    WideLiterals
        \cup {UnaryOperator("IntMinus", a) : a \in WideLiterals}
        \cup {BinaryOperator(o, a, b) :
                 o \in {"IntPlus", "IntMinus", "IntMultiply"},
                 a \in WideLiterals, b \in WideLiterals}

\* f(x) { return e; } for each of them, f(x) { return ++x; } and
\* f(x) { return --x; }, and the casts to Int.
WidthPrograms ==
    {<<Function("f", TInt, <<Param(TInt, 1)>>, <<>>, <<SReturn(<<e>>)>>)>> :
        e \in WideExprs
               \cup {LValueToRValue(LValueUnaryOperator(o, Local(1))) :
                        o \in {"IntIncrement", "IntDecrement"}}}
    \cup {<<Function("f", TInt, <<Param(c[2], 1)>>, <<>>, <<SReturn(<<Cast(c[1], X)>>)>>)>> :
            c \in {<<"DoubleToInt", TDouble>>, <<"BooleanToInt", TBoolean>>,
                    <<"PtrToInt", TPointer(TInt)>>}}

\* A loop whose body holds a loop that a Break leaves, then a Break or a
\* Continue of its own.
NestedLoopPrograms ==
    {<<Function("f", TInt, <<Param(TBoolean, 1)>>, <<>>,
                <<SFor(SExpression(X), X, <<X>>,
                       <<SFor(SExpression(X), X, <<X>>, <<SBreak>>), s>>)>>)>> :
        s \in {SBreak, SContinue}}

\* The operators codegen_binop matches on, with the type of their operands.
BackendBinops ==
    {<<o, TInt>> : o \in {"IntPlus", "IntMinus", "IntMultiply", "IntDivide", "IntModulo",
                          "IntEqual", "IntNotEqual", "IntLess", "IntLessEqual",
                          "IntGreater", "IntGreaterEqual"}}
    \cup {<<o, TDouble>> : o \in {"DoublePlus", "DoubleMinus", "DoubleMultiply",
                                  "DoubleDivide", "DoubleEqual", "DoubleNotEqual",
                                  "DoubleLess", "DoubleLessEqual", "DoubleGreater",
                                  "DoubleGreaterEqual"}}
    \cup {<<o, TBoolean>> : o \in {"BooleanEqual", "BooleanNotEqual"}}
    \cup {<<o, TPointer(TInt)>> : o \in {"PtrPlusOffset", "PtrMinusOffset", "PtrDiff"}}

\* f(x, y) { return x <binop> y; } for each operator (the right operand of a
\* pointer offset is an Int).
BinopPrograms ==
    {<<Function("f", TInt,
                <<Param(b[2], 1),
                  Param(IF b[1] \in {"PtrPlusOffset", "PtrMinusOffset"} THEN TInt ELSE b[2], 2)>>,
                <<>>,
                <<SReturn(<<BinaryOperator(b[1], X, LValueToRValue(Local(2)))>>)>>)>> :
        b \in BackendBinops}

(***************************************************************************)
(* Claims on operator selection.                                           *)
(***************************************************************************)
PrimName(t) == t[1].c
ArithOps == {"Plus", "Minus", "Multiply", "Divide", "Modulo"}
EqOps == {"Equal", "NotEqual"}
OrdOps == {"Less", "LessEqual", "Greater", "GreaterEqual"}

\* The entries of the selection table on (Int,Int), (Double,Double), (Boolean,Boolean).
InPrimTable(binop, lhs, rhs) ==
    /\ lhs = rhs
    /\ \/ lhs = TInt
       \/ lhs = TDouble /\ binop # "Modulo"
       \/ lhs = TBoolean /\ binop \in EqOps

\* C1: on a primitive pair that has an entry in the selection table, binop_typeck
\* returns that entry: the operand type for arithmetic and Boolean for comparisons,
\* with the monomorphic operator named after the operand type and the operator.
C1_PrimEntries ==
    (tc.fn = "binop_typeck" /\ tc.done /\ InPrimTable(tc.op, tc.lhs, tc.rhs)) =>
        /\ tc.ret.some
        /\ tc.ret.ty = (IF tc.op \in ArithOps THEN tc.lhs ELSE TBoolean)
        /\ tc.ret.op = PrimName(tc.lhs) \o tc.op
        /\ tc.ret.op \in IrBinops

C1_Witness ==
    /\ tc.fn = "binop_typeck" /\ tc.done /\ tc.op = "GreaterEqual"
    /\ tc.lhs = TDouble /\ tc.rhs = TDouble
    /\ tc.ret = Some(TBoolean, "DoubleGreaterEqual")

NoValueType(t) == t[1].c \in {"String", "Void", "Array", "LValue"}

\* C2: binop_typeck returns None on operands of two different types, on % over
\* Double, on arithmetic and ordering over Boolean, and whenever an operand is a
\* String, Void, Array or LValue.
C2_NoneOutsideTable ==
    (/\ tc.fn = "binop_typeck" /\ tc.done
     /\ \/ tc.lhs # tc.rhs
        \/ tc.op = "Modulo" /\ tc.lhs = TDouble /\ tc.rhs = TDouble
        \/ tc.op \in ArithOps \cup OrdOps /\ tc.lhs = TBoolean /\ tc.rhs = TBoolean
        \/ NoValueType(tc.lhs)
        \/ NoValueType(tc.rhs))
    => tc.ret = None

C2_Witness ==
    /\ tc.fn = "binop_typeck" /\ tc.done /\ tc.op = "Plus"
    /\ tc.lhs = TInt /\ tc.rhs = TDouble
    /\ tc.ret = None

\* C3: operator selection covers the pointer columns: + and - on (Pointer T, Int)
\* yield Pointer T with PtrPlusOffset / PtrMinusOffset, - on (Pointer T, Pointer T)
\* yields Int with PtrDiff, == and != on (Pointer T, Pointer T) yield Boolean.
C3_PointerColumns ==
    (tc.fn = "binop_typeck" /\ tc.done /\ IsPointer(tc.lhs)) =>
        /\ (tc.op = "Plus" /\ tc.rhs = TInt) => tc.ret = Some(tc.lhs, "PtrPlusOffset")
        /\ (tc.op = "Minus" /\ tc.rhs = TInt) => tc.ret = Some(tc.lhs, "PtrMinusOffset")
        /\ (tc.op = "Minus" /\ tc.rhs = tc.lhs) => tc.ret = Some(TInt, "PtrDiff")
        /\ (tc.op \in EqOps /\ tc.rhs = tc.lhs) => (tc.ret.some /\ tc.ret.ty = TBoolean)

\* C4: unop_typeck returns the operand type with IntMinus / DoubleMinus for - on
\* Int / Double and Boolean with BooleanNot for ! on Boolean, and None for every
\* other operand of - and !.
C4_UnopTable ==
    (tc.fn = "unop_typeck" /\ tc.done /\ tc.op \in {"Minus", "LogicalNot"}) =>
        IF \/ tc.op = "Minus" /\ tc.lhs \in {TInt, TDouble}
           \/ tc.op = "LogicalNot" /\ tc.lhs = TBoolean
        THEN tc.ret = Some(tc.lhs, PrimName(tc.lhs)
                                    \o (IF tc.op = "Minus" THEN "Minus" ELSE "Not"))
        ELSE tc.ret = None

C4_Witness ==
    /\ tc.fn = "unop_typeck" /\ tc.done /\ tc.op = "LogicalNot" /\ tc.lhs = TInt
    /\ tc.ret = None

(***************************************************************************)
(* Claims on the lexer.                                                    *)
(***************************************************************************)
\* The first n tokens a caller gets that only ever calls next_token, from position
\* p with an empty buffer (errors carry no token; an error that does not advance
\* ends the stream).
RECURSIVE ScanTokens(_, _, _)
ScanTokens(inp, p, n) ==
    IF n = 0 THEN <<>>
    ELSE LET r == Scan([input |-> inp, pos |-> p, buffer |-> <<>>])
         IN  IF r.res.ok THEN <<r.res>> \o ScanTokens(inp, r.lexer.pos, n - 1)
             ELSE IF r.lexer.pos = p THEN <<>>
             ELSE ScanTokens(inp, r.lexer.pos, n)

\* C9 (state part): whatever peek_token calls came in between, the tokens that
\* next_token delivered are the tokens of the input in order, and a buffered token
\* is the next one to deliver.
C9_Delivered ==
    delivered \o buffer = ScanTokens(input, 0, Len(delivered) + Len(buffer))

\* C9 (step part): a peek_token that follows a successful peek_token returns the
\* same token, and the next_token that follows a successful peek_token returns
\* that token and empties the buffer.
C9_PeekThenCall ==
    (last.fn = "peek_token" /\ last.res.ok /\ (NextToken \/ PeekToken))
    => /\ last'.res = last.res
       /\ pos' = pos
       /\ PeekToken => buffer' = <<last.res>>
       /\ NextToken => buffer' = <<>>

\* C9: peek_token does not consume.
C9_PeekNonConsuming == [](C9_Delivered) /\ [][C9_PeekThenCall]_vars

C9_Witness ==
    /\ last.fn = "peek_token" /\ last.res.ok /\ last.res.k = "Identifier"
    /\ buffer = <<last.res>>
    /\ Len(delivered) = 1 /\ delivered[1].k = "Equal"

Underscores3 == <<"_", "_", "_">>

\* The length of the identifier-shaped lexeme at offset s (s starts one).
IdentLexemeLen(inp, s) ==
    CHOOSE n \in 1..(Len(inp) - s) :
        /\ \A i \in 1..n : inp[s + i] \in IdentChar
        /\ s + n < Len(inp) => inp[s + n + 1] \notin IdentChar

\* C10 (state part): no Identifier token starts with `___`.
C10_NoReservedToken ==
    \A t \in {delivered[i] : i \in 1..Len(delivered)} \cup {buffer[i] : i \in 1..Len(buffer)} :
        t.k = "Identifier" => ~StartsWith(t.payload, 0, Underscores3)

\* C10 (step part): next_token on a lexeme that begins with `___` fails with
\* ReservedIdentifier carrying the whole lexeme and its span.
C10_ReservedStep ==
    LET s == skip_whitespaces(input, pos)
    IN  (NextToken /\ buffer = <<>> /\ StartsWith(input, s, Underscores3))
        => LET n == IdentLexemeLen(input, s)
           IN  last'.res = LexErr("ReservedIdentifier", SubSeq(input, s + 1, s + n), s, n)

\* C10: identifiers that begin with three underscores are reserved.
C10_Reserved == [](C10_NoReservedToken) /\ [][C10_ReservedStep]_vars

C10_Witness ==
    /\ last.fn = "next_token" /\ ~last.res.ok
    /\ last.res.k = "ReservedIdentifier" /\ last.res.len = 4 /\ last.res.start = 0
    /\ pos = 4

\* The whole token stream of inp from offset p, up to and including EOF; ok is
\* FALSE when next_token fails on the way.
RECURSIVE LexAll(_, _)
LexAll(inp, p) ==
    LET r == next_token([input |-> inp, pos |-> p, buffer |-> <<>>])
    IN  IF ~r.res.ok THEN [ok |-> FALSE, toks |-> <<>>]
        ELSE IF r.res.k = "EOF" THEN [ok |-> TRUE, toks |-> <<r.res>>]
        ELSE LET rest == LexAll(inp, r.lexer.pos)
             IN  [ok |-> rest.ok, toks |-> <<r.res>> \o rest.toks]

RECURSIVE Zeros(_)
Zeros(n) == IF n <= 0 THEN <<>> ELSE <<"0">> \o Zeros(n - 1)

\* A DoubleLiteral in decimal notation: digits and a decimal point, with at
\* least one digit on each side.
PrintDouble(digits, e) ==
    IF e >= 0 THEN digits \o Zeros(e) \o <<".", "0">>
    ELSE IF 0 - e < Len(digits)
    THEN SubSeq(digits, 1, Len(digits) + e) \o <<".">>
            \o SubSeq(digits, Len(digits) + e + 1, Len(digits))
    ELSE <<"0", ".">> \o Zeros((0 - e) - Len(digits)) \o digits

\* The text of a token: the spelling of a punctuation, operator or keyword,
\* the name of an identifier, the value of a literal; nothing for EOF.
PrintToken(t) ==
    CASE t.k = "EOF" -> <<>>
      [] t.k \in {"Identifier", "IntegerLiteral", "StringLiteral", "BooleanLiteral"}
            -> t.payload
      [] t.k = "DoubleLiteral" -> PrintDouble(t.payload, t.exp)
      [] t.k \in {w.tok : w \in Keywords} -> (CHOOSE w \in Keywords : w.tok = t.k).word
      [] OTHER -> Literals[CHOOSE i \in 1..Len(Literals) : Literals[i].tok = t.k].lit

\* The tokens printed in order, a space after each.
RECURSIVE PrintTokens(_)
PrintTokens(toks) ==
    IF toks = <<>> THEN <<>>
    ELSE PrintToken(toks[1]) \o <<" ">> \o PrintTokens(Tail(toks))

\* Kind and payload of each token, without the spans.
KindsAndPayloads(toks) ==
    [i \in 1..Len(toks) |-> <<toks[i].k, toks[i].payload, toks[i].exp>>]

LineEnd(inp, q) ==
    CHOOSE r \in q..Len(inp) :
        /\ r = Len(inp) \/ inp[r + 1] = "\n"
        /\ \A k \in q..(r - 1) : inp[k + 1] # "\n"

\* The offsets just after a `*/` that starts at or after q.
ClosersFrom(inp, q) ==
    {r \in (q + 2)..Len(inp) : inp[r - 1] = "*" /\ inp[r] = "/"}

\* The piece of skippable text that starts at offset q, as the offset of its
\* end: one white-space character, a `//` or `#` comment up to the end of its
\* line, a block comment up to its first `*/`; q itself when none starts there.
SkippableEnd(inp, q) ==
    IF q >= Len(inp) THEN q
    ELSE IF inp[q + 1] \in Spaces THEN q + 1
    ELSE IF inp[q + 1] = "#" THEN LineEnd(inp, q)
    ELSE IF q + 2 <= Len(inp) /\ inp[q + 1] = "/" /\ inp[q + 2] = "/" THEN LineEnd(inp, q)
    ELSE IF /\ q + 2 <= Len(inp) /\ inp[q + 1] = "/" /\ inp[q + 2] = "*"
            /\ ClosersFrom(inp, q + 2) # {}
    THEN CHOOSE r \in ClosersFrom(inp, q + 2) : \A r2 \in ClosersFrom(inp, q + 2) : r <= r2
    ELSE q

\* The first offset at or after q that is not inside a run of skippable text.
RECURSIVE FirstUnskipped(_, _)
FirstUnskipped(inp, q) ==
    IF SkippableEnd(inp, q) = q THEN q ELSE FirstUnskipped(inp, SkippableEnd(inp, q))

MultiCharOperators ==
    { [lit |-> <<".", ".", ".">>, tok |-> "DotDotDot"],
      [lit |-> <<"-", ">">>, tok |-> "Arrow"],
      [lit |-> <<"=", "=">>, tok |-> "EqualEqual"],
      [lit |-> <<"!", "=">>, tok |-> "BangEqual"],
      [lit |-> <<"+", "+">>, tok |-> "PlusPlus"],
      [lit |-> <<"-", "-">>, tok |-> "MinusMinus"],
      [lit |-> <<"<", "=">>, tok |-> "LessEqual"],
      [lit |-> <<">", "=">>, tok |-> "GreaterEqual"],
      [lit |-> <<"|", "|">>, tok |-> "PipePipe"],
      [lit |-> <<"&", "&">>, tok |-> "AmpAmp"] }

\* C11: when the text at the current position starts with an operator of more
\* than one character, next_token (scanning: nothing is buffered) returns that
\* operator's token, spanning all its characters, and consumes them all; it
\* does not return the token of a shorter prefix.
C11_LongestOperator ==
    [][\A o \in MultiCharOperators :
          (NextToken /\ buffer = <<>> /\ StartsWith(input, pos, o.lit))
          => /\ last'.res = Tok(o.tok, <<>>, 0, pos, Len(o.lit))
             /\ pos' = pos + Len(o.lit)]_vars

\* next_token has returned `==` after `+` on the input `+==`.
C11_Witness ==
    /\ last.fn = "next_token" /\ last.res.ok /\ last.res.k = "EqualEqual"
    /\ last.res.start = 1 /\ pos = 3
    /\ Len(delivered) = 2 /\ delivered[1].k = "Plus"

(***************************************************************************)
(* Claims on the emitted code.                                             *)
(***************************************************************************)
\* llvm_codegen_program has lowered every function.
Lowered == phase.stage = "done" /\ ~be.panicked

Blocks == 1..Len(be.blocks)

\* Every emitted instruction, with the block it is in and its place there.
Emitted ==
    UNION {{[bb |-> b, at |-> i, ins |-> be.blocks[b].instrs[i]] :
               i \in 1..Len(be.blocks[b].instrs)} : b \in Blocks}

\* The block appended under `name` while the statement or expression at p was
\* lowered.
BlockNamed(name, p) ==
    CHOOSE b \in Blocks : be.blocks[b].name = name /\ be.blocks[b].tag = p

\* The statement at position q below s.
RECURSIVE StmtAt(_, _)
StmtAt(s, q) ==
    IF q = <<>> THEN s
    ELSE StmtAt((IF q[1] = SlotBody THEN s.a ELSE s.b)[q[2]], SubSeq(q, 3, Len(q)))

Root == [k |-> "Function", a |-> prog[1].body, b |-> <<>>]

\* The lengths of the positions of the For statements whose body holds q.
EnclosingFors(q) ==
    {n \in 2..(Len(q) - 1) :
        /\ n % 2 = 0
        /\ q[n + 1] = SlotBody
        /\ StmtAt(Root, SubSeq(q, 1, n)).k = "For"}

InnermostFor(q) ==
    SubSeq(q, 1, CHOOSE n \in EnclosingFors(q) : \A m \in EnclosingFors(q) : m <= n)

\* C5: the branch of every Break targets the `end` block, and the branch of
\* every Continue the `loop` block, of the innermost For that encloses the
\* statement, wherever the statement stands in the loop's body.
C5_InnermostLoopTargets ==
    Lowered =>
        \A x \in Emitted :
            /\ x.ins.why = "break" =>
                  /\ EnclosingFors(x.ins.tag) # {}
                  /\ x.ins.bbs[1] = BlockNamed("end", InnermostFor(x.ins.tag))
            /\ x.ins.why = "continue" =>
                  /\ EnclosingFors(x.ins.tag) # {}
                  /\ x.ins.bbs[1] = BlockNamed("loop", InnermostFor(x.ins.tag))

\* C6: after lowering, every block holds one terminator, which is its last
\* instruction, and a block whose terminator names no successor ends in ret or
\* unreachable.
C6_WellTerminated ==
    Lowered =>
        \A b \in Blocks :
            LET instrs == be.blocks[b].instrs
            IN  /\ instrs # <<>>
                /\ \A i \in 1..Len(instrs) :
                      (instrs[i].op \in Terminators) <=> (i = Len(instrs))
                /\ instrs[Len(instrs)].bbs = <<>> =>
                      instrs[Len(instrs)].op \in {"ret", "ret_void", "unreachable"}

\* A loop whose body evaluates `x && x` and then breaks has been lowered.
C6_Witness ==
    /\ Lowered
    /\ \E x \in Emitted : x.ins.why = "break"
    /\ \E x \in Emitted : x.ins.why = "ternary_phi"
    /\ \E x \in Emitted : x.ins.why = "for_back"

\* The blocks whose branch names block j.
Preds(j) ==
    {x.bb : x \in {y \in Emitted : y.ins.op \in {"br", "cond_br"}
                                     /\ \E k \in 1..Len(y.ins.bbs) : y.ins.bbs[k] = j}}

\* The i-th instruction the run executed.
Ran(i) == (CHOOSE x \in Emitted : x.ins.res = run.trace[i]).ins

IsPrefix(p, q) == Len(p) <= Len(q) /\ SubSeq(q, 1, Len(p)) = p

\* ins was built while the k-th operand of the expression at p was lowered.
Under(p, k, ins) == IsPrefix(p \o <<k>>, ins.tag)

\* The PHI of every Ternary takes its two values from the blocks that end in
\* the branches' jumps to the join block, and these are the join block's
\* predecessors.
C7_PhiIncoming ==
    \A x \in Emitted :
        x.ins.op = "phi" =>
            /\ {x.ins.bbs[1], x.ins.bbs[2]} = Preds(x.bb)
            /\ \E y \in Emitted : /\ y.bb = x.ins.bbs[1] /\ y.ins.tag = x.ins.tag
                                  /\ y.ins.why = "ternary_true"
            /\ \E y \in Emitted : /\ y.bb = x.ins.bbs[2] /\ y.ins.tag = x.ins.tag
                                  /\ y.ins.why = "ternary_false"

\* In a run, the code of a branch of the Ternary at p, and its PHI, run only
\* after the conditional branch on its condition, which comes between the code
\* of the condition and them; the true branch runs only when the condition
\* was true and the false branch only when it was false; the PHI runs after
\* the jump that closes the branch the condition selects.
C7_OneBranch ==
    \A c \in {x \in Emitted : x.ins.why = "ternary_cond"} :
        LET p == c.ins.tag
            v == Val(run, c.ins.vals[1])
            Branched(i, j) == \E k \in i..j : run.trace[k] = c.ins.res
            InTrue(ins) == Under(p, 2, ins) \/ (ins.tag = p /\ ins.why = "ternary_true")
            InFalse(ins) == Under(p, 3, ins) \/ (ins.tag = p /\ ins.why = "ternary_false")
            Join(ins) == ins.tag = p /\ ins.why = "ternary_phi"
            After(ins) == InTrue(ins) \/ InFalse(ins) \/ Join(ins)
        IN  \A i \in 1..Len(run.trace) :
                /\ Under(p, 1, Ran(i)) =>
                      \A j \in (i + 1)..Len(run.trace) :
                          After(Ran(j)) => Branched(i + 1, j - 1)
                /\ After(Ran(i)) => Branched(1, i - 1)
                /\ InTrue(Ran(i)) => v # 0
                /\ InFalse(Ran(i)) => v = 0
                /\ Join(Ran(i)) =>
                      \E j \in 1..(i - 1) :
                          /\ Ran(j).tag = p
                          /\ Ran(j).why = IF v # 0 THEN "ternary_true" ELSE "ternary_false"

\* C7: a Ternary evaluates its condition, then exactly one of its branches, and
\* its PHI takes each value from the block where that branch's evaluation
\* ended, nested Ternaries included.
C7_Ternary == Lowered => (C7_PhiIncoming /\ C7_OneBranch)

\* A run has returned the value of a Ternary whose true branch, itself holding
\* a Ternary, ended in another block than the one it started in.
C7_Witness ==
    /\ Lowered /\ run.status = "returned"
    /\ \E x \in Emitted :
          /\ x.ins.op = "phi"
          /\ be.blocks[x.ins.bbs[1]].tag # x.ins.tag
          /\ \E i \in 1..Len(run.trace) : run.trace[i] = x.ins.res
          /\ \E i \in 1..Len(run.trace) : Ran(i).tag = x.ins.tag /\ Ran(i).why = "ternary_true"

\* C8: the value an IntToBoolean cast computes is true (1) when its operand is
\* not zero and false (0) when it is zero.
C8_IntToBoolean ==
    \A i \in 1..Len(run.trace) :
        (Ran(i).why = "cast" /\ Ran(i).op = "trunc") =>
            run.regs[Ran(i).res] = IF Val(run, Ran(i).vals[1]) # 0 THEN 1 ELSE 0

\* The expression at path q below e, and the expression at position q of the
\* body rooted at s.
RECURSIVE ExprAt(_, _)
ExprAt(e, q) == IF q = <<>> THEN e ELSE ExprAt(e.sub[q[1]], Tail(q))

RECURSIVE ExprOf(_, _)
ExprOf(s, q) ==
    CASE q[1] = SlotExpr -> ExprAt(s.e[1], SubSeq(q, 3, Len(q)))
      [] q[1] = SlotStep -> ExprAt(s.s[1], SubSeq(q, 3, Len(q)))
      [] OTHER -> ExprOf((IF q[1] = SlotBody THEN s.a ELSE s.b)[q[2]], SubSeq(q, 3, Len(q)))

\* The declaration of the function whose block b is.
DeclOfBlock(b) ==
    CHOOSE i \in 1..Len(prog) :
        IsFunction(prog[i]) /\ prog[i].name = be.functions[be.blocks[b].fn]

\* The FunctionCall whose lowering built the call instruction x.
CallOf(x) ==
    ExprOf([k |-> "Function", a |-> prog[DeclOfBlock(x.bb)].body, b |-> <<>>], x.ins.tag)

\* C14 (order): no body is lowered during the pre-pass, and once the pre-pass
\* is over every Function and ExternFunction of the program is declared in the
\* module.
C14_DeclaredFirst ==
    /\ phase.stage = "pre" => be.blocks = <<>>
    /\ phase.stage \in {"gen", "done"} =>
          \A i \in 1..Len(prog) : GetNamedFunction(be, prog[i].name) # 0

\* C14 (resolution): the callee of every call lowered from a call of
\* Global(name) is the function declared under that name.
C14_Resolved ==
    \A x \in Emitted :
        (x.ins.why = "call" /\ CallOf(x).sub[1].k = "Global") =>
            /\ x.ins.vals[1].k = "func"
            /\ x.ins.vals[1].n # 0
            /\ be.functions[x.ins.vals[1].n] = CallOf(x).sub[1].s

\* C14: every declaration is declared before any body is lowered, and a
\* Global(name) met in a body resolves to the declared function, whatever the
\* order of the declarations.
C14_ForwardReferences == C14_DeclaredFirst /\ C14_Resolved

\* f, declared first, has been lowered with its calls of g and e, which are
\* declared after it.
C14_Witness ==
    /\ Lowered /\ Len(prog) = 3 /\ prog[1].name = "f" /\ prog[3].name = "g"
    /\ \E x \in Emitted : /\ x.ins.why = "call" /\ be.blocks[x.bb].fn = 1
                            /\ x.ins.vals[1] = VFunc(3)
    /\ \E x \in Emitted : /\ x.ins.why = "call" /\ be.blocks[x.bb].fn = 1
                            /\ x.ins.vals[1] = VFunc(2)

\* The positions of the For statements lowered.
ForPositions == {x.ins.tag : x \in {y \in Emitted : y.ins.why = "for_cond"}}

\* The block that holds the i-th instruction the run executed.
RanIn(i) == (CHOOSE x \in Emitted : x.ins.res = run.trace[i]).bb

\* The parts of the code of the For at p.
ForInit(p, ins) == Under(p, SlotInit, ins)
ForEnter(p, ins) == ins.tag = p /\ ins.why = "for_enter"
ForCond(p, ins) == Under(p, SlotExpr, ins)
ForCondBr(p, ins) == ins.tag = p /\ ins.why = "for_cond"
ForBody(p, ins) == Under(p, SlotBody, ins)
ForStep(p, ins) == Under(p, SlotStep, ins)
ForBack(p, ins) == ins.tag = p /\ ins.why = "for_back"
InLoop(p, ins) ==
    ForCond(p, ins) \/ ForCondBr(p, ins) \/ ForBody(p, ins) \/ ForStep(p, ins)
        \/ ForBack(p, ins)

\* ins is the branch of a Break, or of a Continue, of the loop at p.
BreakOf(p, ins) ==
    ins.why = "break" /\ EnclosingFors(ins.tag) # {} /\ InnermostFor(ins.tag) = p
ContinueOf(p, ins) ==
    ins.why = "continue" /\ EnclosingFors(ins.tag) # {} /\ InnermostFor(ins.tag) = p

\* The last two instructions the run executed; every run passes through
\* each of its prefixes, so a statement on them is one on every consecutive
\* pair of the run.
Steps2 == Lowered /\ Len(run.trace) >= 2
Prev == Ran(Len(run.trace) - 1)
Curr == Ran(Len(run.trace))
CurrIn == RanIn(Len(run.trace))

\* init runs once on the way into the loop, never from inside it, and the
\* jump to the `loop` block follows it.
C17_InitOnce ==
    Steps2 =>
        \A p \in ForPositions :
            /\ ForInit(p, Curr) => ~InLoop(p, Prev)
            /\ ForEnter(p, Curr) => ForInit(p, Prev)
            /\ ForInit(p, Prev) => ForInit(p, Curr) \/ ForEnter(p, Curr)

\* cond is evaluated on entry and after every jump back, the conditional
\* branch follows it, and an iteration starts only when it is true.
C17_CondBeforeIteration ==
    Steps2 =>
        \A p \in ForPositions :
            /\ ForEnter(p, Prev) \/ ForBack(p, Prev) => ForCond(p, Curr)
            /\ ForCond(p, Prev) => ForCond(p, Curr) \/ ForCondBr(p, Curr)
            /\ ForCondBr(p, Prev) =>
                  IF Val(run, Prev.vals[1]) # 0
                  THEN ForBody(p, Curr) \/ ForStep(p, Curr) \/ ForBack(p, Curr)
                  ELSE ~InLoop(p, Curr) /\ CurrIn = BlockNamed("end", p)
            /\ ForBody(p, Curr) /\ ~ForBody(p, Prev) => ForCondBr(p, Prev)

\* step runs when the body reaches its end, not otherwise, and the jump back
\* to the `loop` block follows it.
C17_StepAfterBody ==
    Steps2 =>
        \A p \in ForPositions :
            /\ ForStep(p, Curr) =>
                  \/ ForStep(p, Prev) \/ ForCondBr(p, Prev)
                  \/ ForBody(p, Prev) /\ ~BreakOf(p, Prev) /\ ~ContinueOf(p, Prev)
            /\ (ForBody(p, Prev) /\ ~ForBody(p, Curr)
                    /\ ~BreakOf(p, Prev) /\ ~ContinueOf(p, Prev)) => ForStep(p, Curr)
            /\ ForStep(p, Prev) => ForStep(p, Curr) \/ ForBack(p, Curr)
            /\ ForBack(p, Curr) => ForStep(p, Prev)

\* The loop is left only for its `end` block, by a false cond or by a Break
\* of the loop.
C17_LeftThroughEnd ==
    Steps2 =>
        \A p \in ForPositions :
            InLoop(p, Prev) /\ ~InLoop(p, Curr) =>
                /\ CurrIn = BlockNamed("end", p)
                /\ \/ ForCondBr(p, Prev) /\ Val(run, Prev.vals[1]) = 0
                   \/ BreakOf(p, Prev)

\* A Break of the loop, once run, has left it for its `end` block.
C17_BreakLeaves ==
    Lowered /\ run.trace # <<>> =>
        \A p \in ForPositions :
            BreakOf(p, Curr) => run.bb = BlockNamed("end", p)

\* C17: the code of For(init, cond, step, body) runs init once, evaluates
\* cond before every iteration, the first included, runs step after each
\* normal completion of the body and before the next evaluation of cond, and
\* leaves the loop through the `end` block exactly when cond is false or a
\* Break runs.
C17_ForLowering ==
    /\ C17_InitOnce /\ C17_CondBeforeIteration /\ C17_StepAfterBody
    /\ C17_LeftThroughEnd /\ C17_BreakLeaves

\* A Continue of the loop, once run, has passed control to its `loop` block,
\* where cond is evaluated.
C18_ToCondition ==
    Lowered /\ run.trace # <<>> =>
        \A p \in ForPositions :
            ContinueOf(p, Curr) => run.bb = BlockNamed("loop", p)

\* The code of step does not run after a Continue of the loop.
C18_NoStep ==
    Steps2 => \A p \in ForPositions : ContinueOf(p, Prev) => ~ForStep(p, Curr)

\* C18: a Continue run in the body of a For that has a step passes control
\* to the loop's condition block, and step is not evaluated for that
\* iteration.
C18_ContinueSkipsStep == C18_ToCondition /\ C18_NoStep

\* The places of the call `what` in the record of native calls.
NativeCalls(what) == {i \in 1..Len(be.native) : be.native[i] = what}

\* C15: once the Backend is dropped, the module and the builder have been
\* released, each before the context, and the context has been disposed
\* exactly once.
C15_ReverseRelease ==
    phase.stage = "dropped" =>
        /\ Cardinality(NativeCalls("LLVMContextDispose")) = 1
        /\ \A c \in NativeCalls("LLVMContextDispose") :
              /\ \E m \in NativeCalls("LLVMDisposeModule") : m < c
              /\ \E b \in NativeCalls("LLVMDisposeBuilder") : b < c

\* C16: has_default_value holds for Array(T, N) whenever it holds for T.
C16_ArrayDefault ==
    (/\ tc.fn = "has_default_value" /\ tc.done
     /\ Head(tc.lhs).c = "Array" /\ has_default_value(Tail(tc.lhs)))
        => tc.ret = TRUE

\* The ids declared by the parameters and var_declarations of declaration d.
DeclaredIds(d) ==
    {d.parameters[i].id : i \in 1..Len(d.parameters)}
        \cup {d.var_declarations[i].id : i \in 1..Len(d.var_declarations)}

\* The loads and stores built on the address of an lvalue, with the lvalue
\* expression and the address used.
LValueUses ==
    {[x |-> x, lv |-> CallOf(x).sub[1],
      addr |-> IF x.ins.why = "l2r" THEN x.ins.vals[1] ELSE x.ins.vals[2]] :
        x \in {y \in Emitted : y.ins.why \in {"l2r", "assign"}}}

\* The allocas of the entry block of function fn.
EntrySlots(fn) ==
    {y.ins.res : y \in {z \in Emitted : /\ z.ins.op = "alloca"
                                         /\ be.blocks[z.bb].fn = fn
                                         /\ be.blocks[z.bb].name = "entry"}}

\* C21: in the code of every function, the address used for a Local(id)
\* whose id the function declares is a slot allocated in the entry block of
\* that same function.
C21_OwnSlots ==
    \A u \in LValueUses :
        (u.lv.k = "Local" /\ u.lv.n \in DeclaredIds(prog[DeclOfBlock(u.x.bb)])) =>
            /\ u.addr.k = "inst"
            /\ u.addr.n \in EntrySlots(be.blocks[u.x.bb].fn)

\* The function lowered second has loaded and stored its locals 1 and 2,
\* ids that the function lowered first declared as well.
C21_Witness ==
    /\ Lowered /\ prog \in LocalsPrograms
    /\ \A id \in {1, 2} :
          \E u \in LValueUses : /\ be.blocks[u.x.bb].fn = 2
                                 /\ u.lv = Local(id)
                                 /\ u.addr.n \in EntrySlots(2)

\* The value of an Int expression of literals in the front-end's 64 bits.
RECURSIVE Eval64(_)
Eval64(e) ==
    CASE e.k = "IntLiteral" -> e.i64
      [] e.k = "UnaryOperator" -> NegBytes(Eval64(e.sub[1]))
      [] e.s = "IntPlus" -> AddBytes(Eval64(e.sub[1]), Eval64(e.sub[2]))
      [] e.s = "IntMinus" -> SubBytes(Eval64(e.sub[1]), Eval64(e.sub[2]))
      [] e.s = "IntMultiply" -> MulBytes(Eval64(e.sub[1]), Eval64(e.sub[2]))

\* v modulo 2^32, as a signed number.
Mod32(v) == Signed(SubSeq(v, 1, 4))

\* The expression the one function of a WidthPrograms program returns.
Returned == prog[1].body[1].e[1]

\* Every integer constant in the code, and the destination type of every
\* cast to Int, is the 32-bit integer type.
C22_Int32Everywhere ==
    prog \in WidthPrograms =>
        \A x \in Emitted :
            /\ \A i \in 1..Len(x.ins.vals) :
                  x.ins.vals[i].k = "const" => x.ins.vals[i].ty = "i32"
            /\ x.ins.op \in {"fp_to_si", "zext", "ptr_to_int"} => x.ins.aux = "i32"
            /\ x.ins.why \in {"parameter", "vardecl"} /\ x.ins.op = "alloca"
                    /\ prog[1].parameters[1].ty = TInt => x.ins.aux = "i32"

\* The function returns its expression's value modulo 2^32: a literal v as
\* v mod 2^32, and sums, differences and products wrapped.
C22_Wraps ==
    (prog \in WidthPrograms /\ Returned \in WideExprs /\ run.status = "returned") =>
        run.ret = Mod32(Eval64(Returned))

\* ++x and --x add and subtract 1 modulo 2^32.
C22_IncDec ==
    (/\ prog \in WidthPrograms /\ Returned.k = "LValueToRValue"
     /\ run.status = "returned") =>
        run.ret = Mod32(IF Returned.sub[1].s = "IntIncrement"
                        THEN AddBytes(I64(run.args[1]), I64(1))
                        ELSE SubBytes(I64(run.args[1]), I64(1)))

\* C22: Int is the 32-bit integer type in all the code emitted: an Int
\* literal v is emitted as v modulo 2^32, and IntPlus, IntMinus, IntMultiply,
\* unary minus and ++/-- wrap modulo 2^32.
C22_IntWidth == C22_Int32Everywhere /\ C22_Wraps /\ C22_IncDec

\* (2^32 - 1) * (2^31 - 1), which is 2^63 - 2^32 - 2^31 + 1, has been
\* returned as -2^31 + 1: the first literal is emitted as -1.
C22_Witness ==
    /\ prog \in WidthPrograms /\ run.status = "returned"
    /\ Returned = BinaryOperator("IntMultiply", IntLiteral64(Wide(0, 0 - 1)),
                                 IntLiteral(MaxI32))
    /\ run.ret = MinI32 + 1

\* C20: for every operator, lowering f(x, y) { return x <binop> y; } does
\* not abort, and the function returns the value of the instruction emitted
\* for the operator.
C20_EveryBinopLowered ==
    (prog \in BinopPrograms /\ phase.stage \notin {"pre", "gen"}) =>
        /\ ~be.panicked
        /\ \E x, y \in Emitted :
              /\ x.ins.why = "binop"
              /\ y.ins.op = "ret" /\ y.ins.vals = <<VInst(x.ins.res)>>

\* The struct types of the context that codegen_type has met.
StructsLowered ==
    {ty \in 1..Len(be.tyctxt) :
        be.tyctxt[ty].k = "Struct" /\ \E h \in 1..Len(be.structs) :
                                          be.structs[h].name = be.tyctxt[ty].name}

\* C19: every call of codegen_type returns, recursive structs included; one
\* named struct is created for each struct type; and any two calls on the
\* same type return the same backend type.
C19_Memoized ==
    phase.stage \in {"types", "overflow"} =>
        /\ \A i \in 1..Len(phase.calls) : phase.calls[i].returned
        /\ \A ty \in StructsLowered :
              Cardinality({h \in 1..Len(be.structs) :
                              be.structs[h].name = be.tyctxt[ty].name}) = 1
        /\ \A i, j \in 1..Len(phase.calls) :
              phase.calls[i].ty = phase.calls[j].ty
                  => phase.calls[i].llvm_ty = phase.calls[j].llvm_ty

\* Two calls on the struct A { int, A* } have returned its one named struct,
\* whose body points back to it.
C19_Witness ==
    /\ phase.stage = "types" /\ Len(phase.calls) >= 2
    /\ be.tyctxt = <<TvInt, TvStruct("A", <<1, 3>>), TvPointer(2)>>
    /\ phase.calls[1] = [ty |-> 2, returned |-> TRUE, llvm_ty |-> LNamed(1)]
    /\ phase.calls[2] = phase.calls[1]
    /\ Len(be.structs) = 1
    /\ be.structs[1].body = <<LPrim("i32"), LType("ptr", <<LNamed(1)>>, 0)>>

(***************************************************************************)
(* Specifications.                                                         *)
(***************************************************************************)
BeIdle == prog = <<>> /\ be = NewBackend /\ phase = Stage("idle", 0) /\ run = NoRun

\* One call of binop_typeck or unop_typeck, on any operator and any types.
InitTypeck == TcInit /\ LexIdle /\ BeIdle
NextTypeck == BinopTypeck \/ UnopTypeck \/ HasDefaultValue
SpecTypeck == InitTypeck /\ [][NextTypeck]_vars

\* A Backend on a type context, and any calls of codegen_type.
InitCodegenType ==
    /\ TcIdle /\ LexIdle
    /\ prog = <<>> /\ run = NoRun
    /\ be \in {[NewBackend EXCEPT !.tyctxt = T] : T \in TypeContexts}
    /\ phase = [stage |-> "types", i |-> 0, calls |-> <<>>]
NextCodegenType == CodegenType
SpecCodegenType == InitCodegenType /\ [][NextCodegenType]_vars

\* A Lexer on any input over these characters, and any calls of next_token and
\* peek_token.
\* ---------------------------------------------------------------------------
\* C23: the double regex before the integer regex
\* ---------------------------------------------------------------------------

\* The lexeme at offset s opens with digits, a `.` and a digit.
DigitsDotDigit(inp, s) ==
    LET d == RunLen(inp, s, Digits)
    IN  /\ d > 0
        /\ HasChar(inp, s + d) /\ CharAt(inp, s + d) = "."
        /\ HasChar(inp, s + d + 1) /\ CharAt(inp, s + d + 1) \in Digits

\* The length of digits, `.`, digits at offset s.
MantissaLen(inp, s) ==
    RunLen(inp, s, Digits) + 1 + RunLen(inp, s + RunLen(inp, s, Digits) + 1, Digits)

\* What a scanning next_token returns for a lexeme of digits, `.`, digit: one
\* DoubleLiteral over at least the digits, the `.` and the digits.
DoubleReturned ==
    LET s == FirstUnskipped(input, pos)
    IN  DigitsDotDigit(input, s) =>
          /\ last'.res.ok /\ last'.res.k = "DoubleLiteral"
          /\ last'.res.start = s
          /\ last'.res.len >= MantissaLen(input, s)
          /\ pos' = s + last'.res.len

\* The run of digits at the first unskipped offset is not followed by `.` and
\* a digit.
AtDigitRun ==
    LET s == FirstUnskipped(input, pos)
    IN  RunLen(input, s, Digits) > 0 /\ ~DigitsDotDigit(input, s)

\* The call returned the IntegerLiteral of the whole run of digits.
IntegerReturned ==
    LET s == FirstUnskipped(input, pos)
    IN  /\ last'.res.ok /\ last'.res.k = "IntegerLiteral"
        /\ last'.res.start = s
        /\ last'.res.len = RunLen(input, s, Digits)

\* The run of digits at the first unskipped offset is a value of i64.
RunFitsI64 ==
    LET s == FirstUnskipped(input, pos)
        d == RunLen(input, s, Digits)
    IN  ParseInteger(Slice(input, s, s + d)).ok

\* C23 as stated: a scanning next_token returns digits, `.`, digits (and an
\* optional exponent) as one DoubleLiteral, and every run of digits not
\* followed by `.` and a digit as an IntegerLiteral.
C23_EveryDigitRunInteger ==
    [][(NextToken /\ buffer = <<>>) =>
          /\ DoubleReturned
          /\ AtDigitRun => IntegerReturned]_vars

\* C23: a scanning next_token returns digits, `.`, digits (and an optional
\* exponent) as one DoubleLiteral and never as IntegerLiteral, Dot,
\* IntegerLiteral; it returns a run of digits not followed by `.` and a digit
\* as an IntegerLiteral when the run is a value of i64, and fails with
\* UnparsableNumber over the run when it is not.
C23_DoubleBeforeInteger ==
    [][(NextToken /\ buffer = <<>>) =>
          /\ DoubleReturned
          /\ (AtDigitRun /\ RunFitsI64) => IntegerReturned
          /\ (AtDigitRun /\ ~RunFitsI64) =>
                /\ ~last'.res.ok /\ last'.res.k = "UnparsableNumber"
                /\ last'.res.start = FirstUnskipped(input, pos)
                /\ last'.res.len = RunLen(input, FirstUnskipped(input, pos), Digits)]_vars

\* `1.1e-1` was returned as one DoubleLiteral of six characters.
C23_Witness ==
    /\ input = <<"1", ".", "1", "e", "-", "1">>
    /\ last.fn = "next_token" /\ last.res.ok
    /\ last.res.k = "DoubleLiteral" /\ last.res.start = 0 /\ last.res.len = 6
    /\ delivered = <<last.res>>

\* The run of digits of i64::MAX + 1 was refused.
C23_Overflow ==
    /\ input = [I64MaxDigits EXCEPT ![19] = "8"]
    /\ last.fn = "next_token" /\ ~last.res.ok
    /\ last.res.k = "UnparsableNumber"

\* ---------------------------------------------------------------------------
\* C24: UnknownChar
\* ---------------------------------------------------------------------------

\* No literal, identifier, number or string starts at offset s of the input.
StartsNoToken(inp, s) ==
    /\ s < Len(inp)
    /\ FirstLiteral(inp, s) = 0
    /\ IdentifierMatch(inp, s) = NoMatch
    /\ DoubleMatch(inp, s) = NoMatch
    /\ IntegerMatch(inp, s) = NoMatch
    /\ StringMatch(inp, s) = NoMatch

\* The error of the character at offset s.
UnknownCharAt(inp, s) == LexErr("UnknownChar", <<CharAt(inp, s)>>, s, 1)

\* The last call failed with UnknownChar.
FailedUnknownChar == last # NoCall /\ ~last.res.ok /\ last.res.k = "UnknownChar"

\* A scanning next_token whose first unskipped character starts no token fails
\* with UnknownChar of that character over one column and stops on it.
C24_Reported ==
    [][(NextToken /\ buffer = <<>>
          /\ StartsNoToken(input, FirstUnskipped(input, pos))) =>
          /\ last'.res = UnknownCharAt(input, FirstUnskipped(input, pos))
          /\ buffer' = <<>>
          /\ pos' = FirstUnskipped(input, pos)
          /\ delivered' = delivered]_vars

\* A next_token after an UnknownChar returns the same error and moves nothing.
C24_Repeated ==
    [][(NextToken /\ FailedUnknownChar) =>
          /\ last'.res = last.res
          /\ buffer' = <<>> /\ pos' = pos
          /\ CharAt(input, pos) = last.res.payload[1]]_vars

\* peek_token after an UnknownChar buffers nothing and returns the error too.
C24_PeekRepeated ==
    [][(PeekToken /\ FailedUnknownChar) =>
          last'.res = last.res /\ buffer' = <<>> /\ pos' = pos]_vars

\* The position is on the unknown character as long as the error is the last
\* result.
C24_OnTheCharacter ==
    FailedUnknownChar =>
        /\ buffer = <<>>
        /\ pos = last.res.start /\ last.res.len = 1
        /\ StartsNoToken(input, pos)

\* C24: when the first unskipped character starts no token, next_token fails
\* with UnknownChar of that character and a span of length one at its
\* position, leaves the buffer empty and the position on that character, and
\* every later call returns the same error.
C24_UnknownChar ==
    /\ C24_Reported
    /\ C24_Repeated
    /\ C24_PeekRepeated
    /\ [][C24_OnTheCharacter']_vars

\* ` @` after `a`: the identifier was delivered and the `@` at offset 2 was
\* reported, the position staying on it.
C24_Witness ==
    /\ input = <<"a", " ", "@">>
    /\ Len(delivered) = 1
    /\ last = [fn |-> "next_token", res |-> LexErr("UnknownChar", <<"@">>, 2, 1)]
    /\ pos = 2 /\ buffer = <<>>

\* ---------------------------------------------------------------------------
\* C25: lexing terminates
\* ---------------------------------------------------------------------------

\* The number of tokens of a sequence that are not EOF.
NotEOF(toks) == Cardinality({i \in DOMAIN toks : toks[i].k # "EOF"})

\* The last call returned EOF.
ReturnedEOF == last # NoCall /\ last.res.ok /\ last.res.k = "EOF"

\* The position never decreases.
C25_Monotone == [][pos' >= pos]_vars

\* The position never exceeds the length of the input.
C25_InInput == pos <= Len(input)

\* A next_token that returns a token other than EOF from the input advances
\* the position by at least one character.
C25_Advances ==
    [][(NextToken /\ buffer = <<>> /\ last'.res.ok /\ last'.res.k # "EOF") =>
          pos' >= pos + 1]_vars

\* The tokens other than EOF that were delivered or are buffered are at most as
\* many as the characters the position has passed.
C25_AtMostLen == NotEOF(delivered) + NotEOF(buffer) <= pos

\* Once a call returned EOF, every call returns that EOF.
C25_EOFStays == [][ReturnedEOF => last'.res = last.res]_vars

\* C25: the position never decreases and never exceeds the input length, a
\* next_token that returns a token other than EOF from the input advances the
\* position, so at most as many such tokens are returned as the input has
\* characters, and once EOF was returned every later call returns EOF.
C25_Terminates ==
    /\ C25_Monotone
    /\ [][C25_InInput']_vars
    /\ C25_Advances
    /\ [][C25_AtMostLen']_vars
    /\ C25_EOFStays

\* `a=1=`: four tokens of one character each were delivered from four
\* characters.
C25_Witness ==
    /\ input = <<"a", "=", "1", "=">>
    /\ Len(delivered) = 4 /\ NotEOF(delivered) = 4
    /\ pos = 4 /\ buffer = <<>>

\* EOF was delivered twice after the only token of ` a `.
C25_EOFTwice ==
    /\ input = <<" ", "a", " ">>
    /\ Len(delivered) = 3
    /\ delivered[2].k = "EOF" /\ delivered[3] = delivered[2]

\* ---------------------------------------------------------------------------
\* C26: `unreachable` at the end of every function
\* ---------------------------------------------------------------------------

\* The number of instructions `op` in the module of B.
OpCount(B, op) ==
    Cardinality(UNION {{<<b, i>> : i \in {j \in 1..Len(B.blocks[b].instrs) :
                                            B.blocks[b].instrs[j].op = op}}
                       : b \in 1..Len(B.blocks)})

\* The number of Return statements of a statement list, with a value
\* (valued = TRUE) or without.
RECURSIVE Returns(_, _)
Returns(list, valued) ==
    IF list = <<>> THEN 0
    ELSE (IF list[1].k = "Return" THEN (IF (list[1].e # <<>>) = valued THEN 1 ELSE 0)
          ELSE Returns(list[1].a, valued) + Returns(list[1].b, valued))
         + Returns(Tail(list), valued)

\* codegen_function leaves the builder in a block of the function that ends in
\* the one `unreachable` it has added, and has added no `ret void` and no
\* `ret` but those of the Return statements of the body.
C26_Appended ==
    [][(CodegenFunction /\ IsFunction(prog[phase.i]) /\ ~be'.panicked) =>
          LET open == be'.blocks[be'.cur]
          IN  /\ open.fn = GetNamedFunction(be, prog[phase.i].name)
              /\ open.instrs # <<>>
              /\ open.instrs[Len(open.instrs)].op = "unreachable"
              /\ \A i \in 1..(Len(open.instrs) - 1) : open.instrs[i].op \notin Terminators
              /\ OpCount(be', "unreachable") = OpCount(be, "unreachable") + 1
              /\ OpCount(be', "ret_void")
                    = OpCount(be, "ret_void") + Returns(prog[phase.i].body, FALSE)
              /\ OpCount(be', "ret")
                    = OpCount(be, "ret") + Returns(prog[phase.i].body, TRUE)]_vars

\* A call returns only through the `ret` or `ret void` of a Return statement;
\* a call that reaches the end of the body runs into `unreachable`.
C26_FallThrough ==
    (run.status \in {"returned", "undefined"} /\ run.trace # <<>>) =>
        /\ run.status = "returned" =>
              /\ Ran(Len(run.trace)).op \in {"ret", "ret_void"}
              /\ Ran(Len(run.trace)).why = "return"
        /\ Ran(Len(run.trace)).why = "end" =>
              /\ Ran(Len(run.trace)).op = "unreachable"
              /\ run.status = "undefined"

\* C26: the backend appends `unreachable` to the last open block of every
\* function, whatever its return type; a void function whose body does not
\* end in a `return` gets `unreachable` on its fall-through path and no
\* implicit `ret void`.
C26_UnreachableEnd ==
    /\ C26_Appended
    /\ [][C26_FallThrough']_vars

\* The void function whose body is `if (x) return;` was called with x false
\* and ran into the `unreachable` at its end; its only `ret void` is that of
\* the Return statement.
C26_Witness ==
    /\ prog = <<Function("f", TVoid, <<Param(TBoolean, 1)>>, <<>>,
                         <<SIf(X, <<SReturn(<<>>)>>, <<>>)>>)>>
    /\ Lowered
    /\ OpCount(be, "ret_void") = 1 /\ OpCount(be, "unreachable") = 1
    /\ run.args = <<0>> /\ run.status = "undefined"
    /\ Ran(Len(run.trace)).op = "unreachable"

IdentChars == {"_", "a", "1", " ", "=", "@"}
InitLexer == TcIdle /\ LexInit(IdentChars) /\ BeIdle
NextLexer == NextToken \/ PeekToken
SpecLexer == InitLexer /\ [][NextLexer]_vars

\* A Lexer on any input made of the characters of the operators.
OperatorChars == {".", "-", ">", "=", "!", "+", "<", "|", "&"}
InitLexerOps == TcIdle /\ LexInitUpTo(OperatorChars, MaxOperatorsLen) /\ BeIdle
SpecLexerOps == InitLexerOps /\ [][NextLexer]_vars

\* A Lexer on any input made of the characters of literals and white space.
LiteralChars == {"\"", "\\", "0", "1", ".", "e", " "}
InitLexerLiterals == TcIdle /\ LexInitUpTo(LiteralChars, MaxLiteralsLen) /\ BeIdle
SpecLexerLiterals == InitLexerLiterals /\ [][NextLexer]_vars

\* A Lexer on any input made of the characters of numbers, on a double with a
\* signed exponent, and on the runs of digits of i64::MAX and of i64::MAX + 1.
NumberChars == {"1", ".", "e", "-"}
NumberSamples ==
    {<<"1", ".", "1", "e", "-", "1">>, I64MaxDigits, [I64MaxDigits EXCEPT ![19] = "8"]}
InitLexerNumbers ==
    /\ TcIdle /\ BeIdle
    /\ input \in SeqsUpTo(NumberChars, MaxNumbersLen) \cup NumberSamples
    /\ pos = 0
    /\ buffer = <<>>
    /\ last = NoCall
    /\ delivered = <<>>
SpecLexerNumbers == InitLexerNumbers /\ [][NextLexer]_vars

\* A Lexer on any input made of white space and the characters of comments.
CommentChars == {" ", "\n", "/", "*", "#"}
InitLexerComments == TcIdle /\ LexInitUpTo(CommentChars, MaxCommentsLen) /\ BeIdle
SpecLexerComments == InitLexerComments /\ [][NextLexer]_vars

\* llvm_codegen_program on any of the programs, and a call of the function it
\* emitted.
InitBackend ==
    TcIdle /\ LexIdle
    /\ BackendInit(StmtPrograms \cup NestedLoopPrograms \cup LocalsPrograms
                      \cup WidthPrograms \cup VoidPrograms \cup TernaryPrograms
                      \cup CastPrograms \cup CallPrograms \cup BinopPrograms)
BackendNext == PreCodegen \/ CodegenFunction \/ Unwind \/ Call \/ Step
SpecBackend == InitBackend /\ [][BackendNext]_vars
====
